---- MODULE Spec2Model ----
(***************************************************************************)
(* Model of the deCONZ REST plugin core: the outbound request pipeline     *)
(* (de_web_plugin.cpp: addTask, processTasks, apsdeDataConfirm) and the    *)
(* rule store behind the /rules REST resource (rest_rules.cpp).            *)
(***************************************************************************)
EXTENDS Integers, Sequences, FiniteSets, TLC

(***************************************************************************)
(* Bounds of the model and program constants.                              *)
(***************************************************************************)
\* bound: number of TaskItems the handlers construct in one behaviour
MaxOffers == 3
\* bound: number of TaskItems constructed for group destinations
MaxGroupOffers == 2
\* bound: last value of the millisecond clock (abstract time units)
MaxTime == 2
\* bound: TaskItems the handlers may still construct after a preloaded start
MaxRefill == 2
\* bound: number of rules the POST requests create in one behaviour
MaxPosts == 3
\* bound: number of rules the POST requests create when the requests carry
\* lists of every size class
MaxSizePosts == 1
\* largest id of a rule the store holds before the requests of SpecRuleIds
MaxStoredId == 3
\* successful POST requests of SpecRuleIds and of SpecConditions
MaxIdPosts == 2
\* bound: successful POST requests of rules on the green power switch
MaxButtonPosts == 1
\* bound: successful POST requests of rules with a period
MaxPeriodicPosts == 1
\* bound: number of times the rule timer fires in one behaviour
MaxTicks == 2
\* bound: green power indications in one behaviour
MaxEvents == 2
\* successful POST requests of rules that name a binding source
MaxBindPosts == 1

\* POST requests on /rules handled while bindings are installed
MaxInstallPosts == 1
\* bound: responses of the group cluster in one behaviour
MaxIndications == 2
\* bound: firings of the rule timer over the store of three rules
MaxVerifyTicks == 4
\* bound: firings of the attribute timer in one behaviour
MaxAttrTicks == 3
\* bound: responses of the scene cluster in one behaviour
MaxSceneIndications == 2
\* bound: the history counter sentSinceTick counts up to this value
MaxSentCount == 2
\* bound: number of nodes with a queued request in the wide start state
Nodes == 6
\* addTask: const uint MaxTasks = 20
MaxTasks == 20
\* processTasks: if (runningTasks.size() > 4) return
MaxRunningGuard == 4
\* gwGroupSendDelay (--group-delay), in clock units of the model
gwGroupSendDelay == 1
\* QTime() default constructed: !sendTime.isValid()
InvalidTime == -1

VARIABLES
    tasks,          \* std::list<TaskItem> tasks
    runningTasks,   \* std::list<TaskItem> runningTasks
    inNetwork,      \* apsCtrl->networkState() == deCONZ::InNetwork
    available,      \* ext addresses whose LightNode isAvailable()
    sendTime,       \* Group::sendTime of every group in the group table
    now,            \* QTime::currentTime()
    nOffered,       \* number of TaskItems offered so far (next fresh request id)
    lastId,         \* request id of the TaskItem object constructed last
    sentSinceTick,  \* history: radio submissions since the task timer fired last
    last            \* history: the operation executed last and its outcome

pipeVars == <<tasks, runningTasks, inNetwork, available, sendTime, now,
              nOffered, lastId, sentSinceTick, last>>

VARIABLES
    rules,          \* std::vector<Rule> rules
    nPosts,         \* number of POST /rules requests handled so far
    issued,         \* history: the ids the successful POST /rules requests returned
    bindingQueue,   \* std::list<BindingTask> bindingQueue
    rlast           \* history: the REST request handled last and its response

VARIABLES
    sensorState,    \* SensorState of the green power switch: buttonevent, lastupdated
    nEvents,        \* number of green power indications handled so far
    glast           \* history: the green power indication handled last

gpVars == <<sensorState, nEvents, glast>>

VARIABLES
    verifyRuleIter, \* size_t verifyRuleIter
    luxState,       \* the cached illuminance value of the illuminance sensor
    nTicks,         \* number of times the rule timer fired so far
    tlast           \* history: what the rule timer did when it fired last

tickVars == <<verifyRuleIter, luxState, nTicks, tlast>>

VARIABLES
    deviceNodes,     \* deCONZ::Node of every device: isZombie(), state(), endpoints()
    sensorAvailable, \* Sensor::isAvailable() of every sensor
    sensorReachable, \* Sensor::config().reachable() of every sensor
    lightAvailable,  \* LightNode::isAvailable() of every light
    nlast            \* history: the node event handled last

VARIABLES
    lightGroups,       \* LightNode::groups() of every light
    groupCapacity,     \* LightNode::groupCapacity() of every light (uint8_t)
    groupCount,        \* LightNode::groupCount() of every light (uint8_t)
    groupTaskNodeIter, \* size_t groupTaskNodeIter
    nIndications,      \* number of counted indications of the group cluster so far
    clast              \* history: the event of the group cluster handled last

groupVars == <<lightGroups, groupCapacity, groupCount, groupTaskNodeIter, nIndications, clast>>

VARIABLES
    lightRead,      \* the read flags of every light (LightNode::mustRead)
    sensorRead,     \* the read flags of every sensor (Sensor::mustRead)
    lightAttrIter,  \* size_t lightAttrIter
    sensorAttrIter, \* size_t sensorAttrIter
    nAttrTicks,     \* number of times the attribute timer fired so far
    zlast           \* history: what the attribute timer did when it fired last

attrVars == <<lightRead, sensorRead, lightAttrIter, sensorAttrIter, nAttrTicks, zlast>>

VARIABLES
    sensorDeleted,  \* Sensor::deletedState() == Sensor::StateDeleted of every sensor
    permitJoin      \* gwPermitJoinDuration

VARIABLES
    sceneCapacity,  \* LightNode::sceneCapacity() of every light (uint8_t)
    sceneCount,     \* GroupInfo::sceneCount() of the GroupInfo of every light and group
    crashed,        \* the process was ended on an access through a null pointer
    nSceneRsp,      \* number of responses of the scene cluster handled so far
    slast           \* history: the response of the scene cluster handled last

sceneVars == <<sceneCapacity, sceneCount, crashed, nSceneRsp, slast>>

lifeVars == <<sensorDeleted, permitJoin, sceneVars>>

nodeVars == <<deviceNodes, sensorAvailable, sensorReachable, lightAvailable, nlast, groupVars,
              attrVars, lifeVars>>

ruleVars == <<rules, nPosts, issued, bindingQueue, rlast, gpVars, tickVars, nodeVars>>

vars == <<pipeVars, ruleVars>>

(***************************************************************************)
(* Addresses, task items.                                                  *)
(***************************************************************************)
ExtAddr(a)   == [mode |-> "ApsExtAddress", a |-> a]
GroupAddr(g) == [mode |-> "ApsGroupAddress", a |-> g]

\* the group table (groups known to getGroupForId)
Groups == {1, 2}

\* task types addTask always appends (de_web_plugin.cpp:4188-4197)
AppendOnlyTypes == {"TaskGetSceneMembership", "TaskGetGroupMembership",
                    "TaskGetGroupIdentifiers", "TaskStoreScene", "TaskRemoveScene",
                    "TaskRemoveAllScenes", "TaskReadAttributes", "TaskWriteAttribute",
                    "TaskViewScene", "TaskAddScene"}

\* A TaskItem: the fields addTask, processTasks and apsdeDataConfirm read.
\*   key  : (dstEndpoint, srcEndpoint, profileId, clusterId, txOptions, asdu size)
\*   light: task.lightNode != 0 (the light at the destination address)
\*   faf  : req.state() == deCONZ::FireAndForgetState
\*   ord  : history, the position of the item in the order of offering
TaskItem(id, type, dst, key, light, faf, ord) ==
    [id |-> id, taskType |-> type, dst |-> dst, key |-> key,
     light |-> light, faf |-> faf, ord |-> ord]

\* the TaskItems the handlers construct for unicast destinations: two light
\* commands for the light at address 1, an attribute write for node 2
UnicastTemplates ==
    { [taskType |-> "TaskSetOnOff",       dst |-> ExtAddr(1), key |-> 1, light |-> TRUE,  faf |-> FALSE],
      [taskType |-> "TaskSetLevel",       dst |-> ExtAddr(1), key |-> 1, light |-> TRUE,  faf |-> FALSE],
      [taskType |-> "TaskWriteAttribute", dst |-> ExtAddr(2), key |-> 1, light |-> FALSE, faf |-> FALSE] }

\* the TaskItems the handlers construct for group destinations; group 9 is
\* not in the group table
GroupTemplates ==
    { [taskType |-> "TaskSetOnOff",  dst |-> GroupAddr(1), key |-> 1, light |-> FALSE, faf |-> FALSE],
      [taskType |-> "TaskSetOnOff",  dst |-> GroupAddr(1), key |-> 1, light |-> FALSE, faf |-> TRUE],
      [taskType |-> "TaskViewGroup", dst |-> GroupAddr(2), key |-> 1, light |-> FALSE, faf |-> FALSE],
      [taskType |-> "TaskViewGroup", dst |-> GroupAddr(9), key |-> 1, light |-> FALSE, faf |-> FALSE] }

\* the TaskItems the handlers construct while the queue is long: a command
\* that coalesces with a queued command, one that finds no queued command of
\* its slot, and an attribute write (always appended)
FullTemplates ==
    { [taskType |-> "TaskSetOnOff",       dst |-> ExtAddr(1), key |-> 1, light |-> FALSE, faf |-> FALSE],
      [taskType |-> "TaskSetOnOff",       dst |-> ExtAddr(2), key |-> 1, light |-> FALSE, faf |-> FALSE],
      [taskType |-> "TaskWriteAttribute", dst |-> ExtAddr(1), key |-> 1, light |-> FALSE, faf |-> FALSE] }

\* the TaskItems the handlers construct while requests for many nodes are
\* queued: a further attribute write
WideTemplates ==
    { [taskType |-> "TaskWriteAttribute", dst |-> ExtAddr(2), key |-> 1, light |-> FALSE, faf |-> FALSE] }

\* the queue after n accepted offers and no pass of processTasks in between:
\* attribute writes for the nodes 1..w, a command for node 1, then further
\* writes for node 1
Preloaded(n, w) ==
    [i \in 1..n |->
        TaskItem(i - 1,
                 IF i = w + 1 THEN "TaskSetOnOff" ELSE "TaskWriteAttribute",
                 ExtAddr(IF i <= w THEN i ELSE 1),
                 1, FALSE, FALSE, i - 1)]

RadioResults == {"Success", "ErrorNodeIsZombie", "Error"}

\* The results the radio gives to the submissions of one pass over n entries,
\* each result in R.  A pass ends at the first submission whose result is not
\* "Error", so when R holds "Error" it is enough to let the radio refuse the
\* entries before some position k and give one result of R from k on: every
\* function of [1..n -> R] gives the pass the same outcome as one of these.
RadioOutcomes(n, R) ==
    IF "Error" \in R
    THEN { [i \in 1..n |-> IF i < k THEN "Error" ELSE r] : k \in 1..(n + 1), r \in R }
    ELSE [1..n -> R]

RemoveAt(s, k) == SubSeq(s, 1, k - 1) \o SubSeq(s, k + 1, Len(s))

(***************************************************************************)
(* addTask (de_web_plugin.cpp:4176-4226).  The result is the pair of the   *)
(* return value and the new content of tasks.                              *)
(***************************************************************************)
\* the replace condition of addTask (4201-4209)
SameSlot(a, b) ==
    /\ a.taskType = b.taskType
    /\ a.dst = b.dst
    /\ a.key = b.key

\* first position of tasks that task may replace, 0 when there is none
ReplaceIndex(ts, task) ==
    IF task.taskType \in AppendOnlyTypes THEN 0
    ELSE IF \E k \in 1..Len(ts) : SameSlot(ts[k], task)
         THEN CHOOSE k \in 1..Len(ts) :
                  /\ SameSlot(ts[k], task)
                  /\ \A j \in 1..(k - 1) : ~SameSlot(ts[j], task)
         ELSE 0

\* mutant of addTask: the size check comes before the replace loop
addTaskSizeFirst(ts, net, task) ==
    IF ~net THEN [ret |-> FALSE, tasks |-> ts]
    ELSE IF Len(ts) >= MaxTasks
         THEN [ret |-> FALSE, tasks |-> ts]
    ELSE IF ReplaceIndex(ts, task) # 0
         THEN [ret |-> TRUE, tasks |-> [ts EXCEPT ![ReplaceIndex(ts, task)] = task]]
    ELSE [ret |-> TRUE, tasks |-> Append(ts, task)]

addTask(ts, net, task) ==
    IF ~net THEN [ret |-> FALSE, tasks |-> ts]
    ELSE IF ReplaceIndex(ts, task) # 0
         THEN [ret |-> TRUE, tasks |-> [ts EXCEPT ![ReplaceIndex(ts, task)] = task]]
    ELSE IF Len(ts) < MaxTasks
         THEN [ret |-> TRUE, tasks |-> Append(ts, task)]
    ELSE [ret |-> FALSE, tasks |-> ts]

(***************************************************************************)
(* processTasks (de_web_plugin.cpp:4275-4408).  out[i] is the result the   *)
(* radio gives when the request of the i-th entry of tasks is submitted    *)
(* (apsCtrl->apsdeDataRequest).  The result records the new queues, the    *)
(* new group send times and, as history, the entries the pass submitted, *)
(* the position the submitted entry had in tasks and the entries the pass  *)
(* tried in vain (refused by the radio, or deferred).                      *)
(***************************************************************************)
PassResult(ts, rs, stime, sent, pos) ==
    [tasks |-> ts, running |-> rs, sendTime |-> stime, sent |-> sent, pos |-> pos,
     refused |-> << >>]

\* history: entry task was tried before the rest of the pass gave result p
Refused(task, p) == [p EXCEPT !.refused = <<task>> \o @]

\* i->lightNode && !i->lightNode->isAvailable()   (4307, 4375)
IsZombie(task, avail) == task.light /\ task.dst.a \notin avail

\* mutant of DestinationBusy: compares the request ids, not the destinations
DestinationBusyById(task, rs) == \E j \in 1..Len(rs) : rs[j].id = task.id

\* the inner loop over runningTasks (4315-4326)
DestinationBusy(task, rs) == \E j \in 1..Len(rs) : rs[j].dst = task.dst

\* !group->sendTime.isValid() || (diff <= 0) || (diff > gwGroupSendDelay)   (4350-4353)
GroupSendAllowed(st, t) ==
    \/ st = InvalidTime
    \/ t - st <= 0
    \/ t - st > gwGroupSendDelay

\* what processTasks does with entry i of tasks (4306-4406): "drop" and
\* "submit" end the pass, "busy", "deferred" and "refused" go on with the
\* next entry
EntryStep(task, rs, avail, stime, t, res) ==
    IF IsZombie(task, avail) THEN "drop"
    ELSE IF DestinationBusy(task, rs) THEN "busy"
    ELSE IF task.dst.mode = "ApsGroupAddress"
         THEN IF task.dst.a \in Groups
              THEN IF GroupSendAllowed(stime[task.dst.a], t)
                   THEN IF res = "Success" THEN "submit" ELSE "refused"
                   ELSE "deferred"
              ELSE "deferred"
    ELSE IF IsZombie(task, avail) THEN "drop"
    ELSE IF res = "Success" THEN "submit"
    ELSE IF res = "ErrorNodeIsZombie" THEN "drop"
    ELSE "refused"

\* group->sendTime = now   (4357)
StampGroup(task, stime, t) ==
    IF task.dst.mode = "ApsGroupAddress" /\ task.dst.a \in Groups
    THEN [stime EXCEPT ![task.dst.a] = t]
    ELSE stime

\* if (pushRunning) runningTasks.push_back(*i)   (4341, 4358-4361, 4387-4390)
PushRunning(task, rs) == IF task.faf THEN rs ELSE Append(rs, task)

RECURSIVE ScanTasksNoReturn(_, _, _, _, _, _, _)
\* mutant of ScanTasks: the pass goes on after a submit instead of returning
ScanTasksNoReturn(i, ts, rs, avail, stime, t, out) ==
    IF i > Len(ts) THEN PassResult(<< >>, rs, stime, << >>, 0)
    ELSE
      LET task == ts[i]
          step == EntryStep(task, rs, avail, stime, t, out[i])
          rest(rs2, st2) == ScanTasksNoReturn(i + 1, ts, rs2, avail, st2, t, out)
          keep(p) == [p EXCEPT !.tasks = <<task>> \o @]
      IN  IF step = "drop" THEN rest(rs, stime)
          ELSE IF step = "submit"
               THEN [rest(PushRunning(task, rs), StampGroup(task, stime, t))
                        EXCEPT !.sent = <<task>> \o @, !.pos = i]
          ELSE IF step = "busy" THEN keep(rest(rs, stime))
          ELSE Refused(task, keep(rest(rs, stime)))

RECURSIVE ScanTasksNewestFirst(_, _, _, _, _, _, _)
\* mutant of ScanTasks: the pass walks tasks from its end to its begin
ScanTasksNewestFirst(i, ts, rs, avail, stime, t, out) ==
    IF i > Len(ts) THEN PassResult(ts, rs, stime, << >>, 0)
    ELSE
      LET k == Len(ts) + 1 - i
          task == ts[k]
          step == EntryStep(task, rs, avail, stime, t, out[k])
          next == ScanTasksNewestFirst(i + 1, ts, rs, avail, stime, t, out)
      IN  IF step = "drop" THEN PassResult(RemoveAt(ts, k), rs, stime, << >>, 0)
          ELSE IF step = "submit"
               THEN PassResult(RemoveAt(ts, k), PushRunning(task, rs),
                               StampGroup(task, stime, t), <<task>>, k)
          ELSE IF step = "busy" THEN next
          ELSE Refused(task, next)

RECURSIVE ScanTasks(_, _, _, _, _, _, _)
\* the for loop of processTasks from position i on (4304-4407)
ScanTasks(i, ts, rs, avail, stime, t, out) ==
    IF i > Len(ts) THEN PassResult(ts, rs, stime, << >>, 0)
    ELSE
      LET task == ts[i]
          step == EntryStep(task, rs, avail, stime, t, out[i])
          next == ScanTasks(i + 1, ts, rs, avail, stime, t, out)
      IN  IF step = "drop" THEN PassResult(RemoveAt(ts, i), rs, stime, << >>, 0)
          ELSE IF step = "submit"
               THEN PassResult(RemoveAt(ts, i), PushRunning(task, rs),
                               StampGroup(task, stime, t), <<task>>, i)
          ELSE IF step = "busy" THEN next
          ELSE Refused(task, next)

\* mutant of TooManyRunning: the pass returns from six running tasks on
TooManyRunningFromSix(rs) == Len(rs) > MaxRunningGuard + 1

\* if (runningTasks.size() > 4) return   (4295-4299)
TooManyRunning(rs) == Len(rs) > MaxRunningGuard

processTasks(ts, rs, net, avail, stime, t, out) ==
    IF ts = << >> THEN PassResult(ts, rs, stime, << >>, 0)
    ELSE IF ~net THEN PassResult(<< >>, << >>, stime, << >>, 0)
    ELSE IF TooManyRunning(rs) THEN PassResult(ts, rs, stime, << >>, 0)
    ELSE ScanTasks(1, ts, rs, avail, stime, t, out)

(***************************************************************************)
(* apsdeDataConfirm (de_web_plugin.cpp:359-409): the running entry the     *)
(* confirm is correlated with, 0 when there is none.                       *)
(***************************************************************************)
ConfirmIndex(rs, k) ==
    IF \E j \in 1..Len(rs) : rs[j].id = k
    THEN CHOOSE j \in 1..Len(rs) :
             /\ rs[j].id = k
             /\ \A h \in 1..(j - 1) : rs[h].id # k
    ELSE 0

\* mutant of eraseConfirmed: every entry with the confirmed id is erased
eraseEveryMatch(rs, k) == SelectSeq(rs, LAMBDA t : t.id # k)

\* runningTasks.erase(i)   (389)
eraseConfirmed(rs, k) ==
    IF ConfirmIndex(rs, k) = 0 THEN rs ELSE RemoveAt(rs, ConfirmIndex(rs, k))

(***************************************************************************)
(* History record of the operation executed last.                          *)
(***************************************************************************)
\* no TaskItem was offered by the operation
NoTask == TaskItem(-1, "none", ExtAddr(0), 0, FALSE, FALSE, 0)

Op(op, arg, ret, p) ==
    [op |-> op, arg |-> arg, ret |-> ret, sent |-> p.sent, pos |-> p.pos,
     refused |-> p.refused, task |-> NoTask]

\* history of an operation that offered task to addTask
OpOffer(op, task, ret, p) == [Op(op, task.id, ret, p) EXCEPT !.task = task]

\* the operation made no pass of processTasks
NoPass == [sent |-> << >>, pos |-> 0, refused |-> << >>]

NoArg == -1

\* history counter of submissions, counted up to MaxSentCount
CountSent(n) == IF n > MaxSentCount THEN MaxSentCount ELSE n

(***************************************************************************)
(* Operations.                                                             *)
(***************************************************************************)
\* the request id of an offered TaskItem: the id of a newly constructed
\* item, or the id of the item constructed last when a handler offers one
\* TaskItem object again (de_web_plugin.cpp:6152-6171)
OfferedIds(reuse) == {nOffered} \cup (IF reuse /\ lastId >= 0 THEN {lastId} ELSE {})

\* a handler calls addTask(task) and returns
AddTaskCall(T, cap, reuse) ==
    /\ nOffered < cap
    /\ \E tpl \in T, id \in OfferedIds(reuse) :
         LET task == TaskItem(id, tpl.taskType, tpl.dst, tpl.key, tpl.light, tpl.faf, nOffered)
             r == addTask(tasks, inNetwork, task)
         IN  /\ tasks' = r.tasks
             /\ lastId' = id
             /\ last' = OpOffer("addTask", task, r.ret, NoPass)
    /\ nOffered' = nOffered + 1
    /\ UNCHANGED <<runningTasks, inNetwork, available, sendTime, now, sentSinceTick>>
    /\ UNCHANGED ruleVars

\* a handler calls addTask(task) and, when it was accepted, processTasks()
\* (de_web_plugin.cpp:4604-4606, 6452-6454)
AddTaskAndProcess(T, cap, R) ==
    /\ nOffered < cap
    /\ \E tpl \in T, id \in OfferedIds(FALSE) :
         LET task == TaskItem(id, tpl.taskType, tpl.dst, tpl.key, tpl.light, tpl.faf, nOffered)
             r == addTask(tasks, inNetwork, task)
         IN  /\ lastId' = id
             /\ IF r.ret
                THEN \E out \in RadioOutcomes(Len(r.tasks), R) :
                       LET p == processTasks(r.tasks, runningTasks, inNetwork, available, sendTime, now, out)
                       IN  /\ tasks' = p.tasks
                           /\ runningTasks' = p.running
                           /\ sendTime' = p.sendTime
                           /\ sentSinceTick' = CountSent(sentSinceTick + Len(p.sent))
                           /\ last' = OpOffer("addTaskAndProcess", task, TRUE, p)
                ELSE /\ tasks' = r.tasks
                     /\ last' = OpOffer("addTaskAndProcess", task, FALSE, NoPass)
                     /\ UNCHANGED <<runningTasks, sendTime, sentSinceTick>>
    /\ nOffered' = nOffered + 1
    /\ UNCHANGED <<inNetwork, available, now>>
    /\ UNCHANGED ruleVars

\* the 100 ms task timer fires: processTasks()   (de_web_plugin.cpp:188-192)
TaskTimerFired(R) ==
    /\ \E out \in RadioOutcomes(Len(tasks), R) :
         LET p == processTasks(tasks, runningTasks, inNetwork, available, sendTime, now, out)
         IN  /\ tasks' = p.tasks
             /\ runningTasks' = p.running
             /\ sendTime' = p.sendTime
             /\ sentSinceTick' = CountSent(Len(p.sent))
             /\ last' = Op("taskTimer", NoArg, TRUE, p)
    /\ UNCHANGED <<inNetwork, available, now, nOffered, lastId>>
    /\ UNCHANGED ruleVars

\* the radio joins or leaves the network (apsCtrl->networkState())
NetworkStateChanged ==
    /\ inNetwork' = ~inNetwork
    /\ last' = Op("network", NoArg, TRUE, NoPass)
    /\ UNCHANGED <<tasks, runningTasks, available, sendTime, now, nOffered, lastId, sentSinceTick>>
    /\ UNCHANGED ruleVars

\* a light becomes a zombie or comes back (LightNode::isAvailable())
LightAvailabilityChanged ==
    /\ \E a \in {1} :
         available' = IF a \in available THEN available \ {a} ELSE available \cup {a}
    /\ last' = Op("available", NoArg, TRUE, NoPass)
    /\ UNCHANGED <<tasks, runningTasks, inNetwork, sendTime, now, nOffered, lastId, sentSinceTick>>
    /\ UNCHANGED ruleVars

\* time passes
TimeAdvance ==
    /\ now < MaxTime
    /\ now' = now + 1
    /\ last' = Op("time", NoArg, TRUE, NoPass)
    /\ UNCHANGED <<tasks, runningTasks, inNetwork, available, sendTime, nOffered, lastId, sentSinceTick>>
    /\ UNCHANGED ruleVars

\* DeRestPlugin::refreshAll (de_web_plugin.cpp:6395-6410)
RefreshAll ==
    /\ tasks' = << >>
    /\ runningTasks' = << >>
    /\ last' = Op("refreshAll", NoArg, TRUE, NoPass)
    /\ UNCHANGED <<inNetwork, available, sendTime, now, nOffered, lastId, sentSinceTick>>
    /\ UNCHANGED ruleVars

(***************************************************************************)
(* The rule store (rest_rules.cpp).  Strings whose characters the code     *)
(* inspects (condition values) are sequences of characters; rule ids are   *)
(* the numbers their decimal strings denote.  The etag of a rule is the    *)
(* reading of the clock that updateEtag hashes (de_web_plugin.cpp:1122-    *)
(* 1133).  Not modelled: owner, creation time and lastVerify of a rule,    *)
(* gwConfigEtag, the timers the handlers start.                            *)
(***************************************************************************)
\* the sensors table: id and type of every sensor
Sensors ==
    { [id |-> 1, type |-> "ZHASwitch"], [id |-> 2, type |-> "DaylightSensor"],
      [id |-> 3, type |-> "ZHAPresence"], [id |-> 4, type |-> "ZHALight"],
      [id |-> 5, type |-> "CLIPOpenClose"], [id |-> 6, type |-> "CLIPTemperature"],
      [id |-> 7, type |-> "CLIPHumidity"], [id |-> 8, type |-> "CLIPGenericFlag"],
      [id |-> 9, type |-> "CLIPGenericStatus"], [id |-> 10, type |-> "ZGPSwitch"],
      [id |-> 11, type |-> "ZHASwitch"] }

\* the attribute paths checkConditions accepts for a sensor of a type (814-872)
ValidAttrs(type) ==
    {"/config/reachable", "/config/on", "/config/battery", "/state/lastupdated"} \cup
    (IF type = "ZGPSwitch" THEN {"/state/buttonevent"}
     ELSE IF type = "ZHASwitch" THEN {"/state/buttonevent"}
     ELSE IF type = "ZHALight" THEN {"/state/illuminance"}
     ELSE IF type = "ZHAPresence" THEN {"/state/presence"}
     ELSE IF type = "CLIPOpenClose" THEN {"/state/open"}
     ELSE IF type = "CLIPPresence" THEN {"/state/presence"}
     ELSE IF type = "CLIPTemperature" THEN {"/state/temperature"}
     ELSE IF type = "CLIPHumidity" THEN {"/state/humidity"}
     ELSE IF type = "DaylightSensor"
          THEN {"/state/daylight", "/config/long", "/config/lat",
                "/config/sunriseoffset", "/config/sunsetoffset"}
     ELSE IF type = "CLIPGenericFlag" THEN {"/state/flag"}
     ELSE IF type = "CLIPGenericStatus" THEN {"/state/status"}
     ELSE {})

\* the address "/sensors/<id><attr>" of a condition
SensorAddress(id, attr) == [sensor |-> id, attr |-> attr]

\* validAddresses.contains(address)   (895)
ValidAddress(a) == \E s \in Sensors : s.id = a.sensor /\ a.attr \in ValidAttrs(s.type)

\* validOperators and validValues for the part of the address from /config
\* or /state on (903-937)
OperatorsFor(confstate) ==
    IF confstate \in {"/state/lastupdated", "/state/long", "/state/lat"}
    THEN [ops |-> {"dx"}, values |-> ""]
    ELSE IF confstate \in {"/state/illuminance", "/state/presence"}
    THEN [ops |-> {"dx", "eq", "lt", "gt"}, values |-> "numbers"]
    ELSE IF confstate \in {"/config/reachable", "/config/on", "/state/open",
                           "/state/presence", "/state/flag", "/state/daylight"}
    THEN [ops |-> {"dx", "eq"}, values |-> "boolean"]
    ELSE IF confstate \in {"/config/battery", "/state/buttonevent",
                           "/state/temperature", "/state/humidity"}
    THEN [ops |-> {"dx", "eq", "gt", "lt"}, values |-> "numbers"]
    ELSE IF confstate \in {"/config/sunriseoffset", "/config/sunsetoffset"}
    THEN [ops |-> {"eq", "gt", "lt"}, values |-> "numbers"]
    ELSE [ops |-> {}, values |-> ""]

Digits == {"0", "1", "2", "3", "4", "5", "6", "7", "8", "9"}

\* QRegExp numbers("^[1-9]\\d*$")   (947)
MatchesNumbers(v) ==
    /\ Len(v) >= 1
    /\ v[1] \in Digits \ {"0"}
    /\ \A i \in 2..Len(v) : v[i] \in Digits

\* QRegExp boolean("^(true|false)$")   (948)
MatchesBoolean(v) == v \in {<<"t", "r", "u", "e">>, <<"f", "a", "l", "s", "e">>}

\* mutant of ConditionOk: a value is allowed with dx
ConditionOkValueWithDx(c) ==
    /\ ValidAddress(c.address)
    /\ c.operator \in OperatorsFor(c.address.attr).ops
    /\ IF c.operator = "dx" THEN TRUE
       ELSE IF OperatorsFor(c.address.attr).values = "numbers" THEN MatchesNumbers(c.value)
       ELSE IF OperatorsFor(c.address.attr).values = "boolean" THEN MatchesBoolean(c.value)
       ELSE TRUE

\* the checks of one condition (880-974)
ConditionOk(c) ==
    /\ ValidAddress(c.address)
    /\ c.operator \in OperatorsFor(c.address.attr).ops
    /\ IF c.operator = "dx" THEN c.value = << >>
       ELSE IF OperatorsFor(c.address.attr).values = "numbers" THEN MatchesNumbers(c.value)
       ELSE IF OperatorsFor(c.address.attr).values = "boolean" THEN MatchesBoolean(c.value)
       ELSE TRUE

\* DeRestPluginPrivate::checkConditions (804-979)
checkConditions(conditionsList) ==
    \A i \in 1..Len(conditionsList) : ConditionOk(conditionsList[i])

\* the resources an action address may begin with (768-769)
ActionResources == {"lights", "groups", "scenes", "schedules", "sensors"}

\* DeRestPluginPrivate::checkActions (752-798); json: Json::parse(body, ok)
checkActions(actionsList) ==
    \A i \in 1..Len(actionsList) :
        /\ actionsList[i].address.res \in ActionResources
        /\ \A j \in 1..(i - 1) : actionsList[j].address # actionsList[i].address
        /\ actionsList[i].method \in {"PUT", "POST", "DELETE", "BIND"}
        /\ actionsList[i].json

RuleCondition(address, operator, value) ==
    [address |-> address, operator |-> operator, value |-> value]

\* the address of an action has no fifth segment
NoScene == 0

\* an action on /<res>/<id>/state; keys: the keys of the body object of the
\* action, values: the literals true and false among its values
RuleAction(res, id, method, json, keys) ==
    [address |-> [res |-> res, id |-> id, path |-> "state", scene |-> NoScene],
     method |-> method, json |-> json, keys |-> keys, values |-> {}]

\* the action PUT /groups/<gid>/scenes/<sid> with the body {}
SceneAction(gid, sid) ==
    [RuleAction("groups", gid, "PUT", TRUE, {}) EXCEPT
        !.address.path = "scenes", !.address.scene = sid]

\* the action PUT /groups/<gid>/action with the body {"on": <value>}
GroupAction(gid, value) ==
    [RuleAction("groups", gid, "PUT", TRUE, {"on"}) EXCEPT
        !.address.path = "action", !.values = {value}]

\* QTime::currentTime() of the clock that was never read
NoTime == -1

\* a Rule as createRule builds it (350-419): state Normal, status enabled
\* unless the request names a status, event-driven unless the request names
\* a period, never triggered
Rule(id, name, status, conditions, actions) ==
    [id |-> id, name |-> name, status |-> status, state |-> "StateNormal",
     conditions |-> conditions, actions |-> actions,
     etag |-> 0, triggerPeriodic |-> 0, lastTriggered |-> NoTime, timesTriggered |-> 0]

\* DeRestPluginPrivate::updateEtag (de_web_plugin.cpp:1122-1133): the MD5 hash
\* of QTime::currentTime().toString(), here the reading of the clock itself
updateEtag(t) == t

\* the mutant of SizeError accepts lists of up to nine items
SizeErrorFromTen(n) == n < 1 \/ n > 9

\* conditionsList.size() < 1, > 8; actionsList.size() < 1, > 8   (285-307, 544-570)
SizeError(n) == n < 1 \/ n > 8

RECURSIVE IdScan(_, _, _, _)
\* one pass of the for loop that looks for the id in rules (354-364)
IdScan(rs, i, id, ok) ==
    IF i > Len(rs) THEN [id |-> id, ok |-> ok]
    ELSE IF rs[i].id = id THEN IdScan(rs, i + 1, rs[i].id + 1, FALSE)
    ELSE IdScan(rs, i + 1, id, ok)

\* mutant of NewRuleId: the rules are scanned once
NewRuleIdOnePass(rs, id) == IdScan(rs, 1, id, TRUE).id

RECURSIVE NewRuleId(_, _)
\* create a new rule id: do { ... } while (!ok)   (349-365)
NewRuleId(rs, id) ==
    IF IdScan(rs, 1, id, TRUE).ok THEN id
    ELSE NewRuleId(rs, IdScan(rs, 1, id, TRUE).id)

\* ri->actions() == rule.actions() && ri->conditions() == rule.conditions()   (436-437)
SameRule(r, actions, conditions) == r.actions = actions /\ r.conditions = conditions

\* position of the first rule the new rule replaces, 0 when there is none (432-445)
ReplacedRule(rs, rule) ==
    IF \E k \in 1..Len(rs) : SameRule(rs[k], rule.actions, rule.conditions)
    THEN CHOOSE k \in 1..Len(rs) :
             /\ SameRule(rs[k], rule.actions, rule.conditions)
             /\ \A j \in 1..(k - 1) : ~SameRule(rs[j], rule.actions, rule.conditions)
    ELSE 0

\* mutant of StoreRule: the new rule is always appended
StoreRuleAppend(rs, rule) == Append(rs, rule)

\* mutant of StoreRule: the replaced slot keeps the id it had
StoreRuleKeepId(rs, rule) ==
    IF ReplacedRule(rs, rule) # 0
    THEN [rs EXCEPT ![ReplacedRule(rs, rule)] = [rule EXCEPT !.id = rs[ReplacedRule(rs, rule)].id]]
    ELSE Append(rs, rule)

\* replace the existing rule with the newly created one, or push_back (430-452)
StoreRule(rs, rule) ==
    IF ReplacedRule(rs, rule) # 0
    THEN [rs EXCEPT ![ReplacedRule(rs, rule)] = rule]
    ELSE Append(rs, rule)

\* a request body: has holds the keys of the JSON object; a list that is not
\* in the body reads as the empty list (map["conditions"].toList())
Body(has, name, status, conditions, actions) ==
    [has |-> has, name |-> name, status |-> status,
     conditions |-> IF "conditions" \in has THEN conditions ELSE << >>,
     actions |-> IF "actions" \in has THEN actions ELSE << >>,
     periodic |-> 0]

\* the body with the key periodic: map["periodic"].toInt(&ok) is p
WithPeriodic(body, p) == [body EXCEPT !.has = @ \cup {"periodic"}, !.periodic = p]

\* the response of a handler and the state it leaves: rules and bindingQueue
Response(http, id, rs) == [http |-> http, id |-> id, rules |-> rs, queue |-> bindingQueue]

\* the response carries no rule id
NoId == 0

(***************************************************************************)
(* Bindings of a rule (queueCheckRuleBindings, queueBindingTask).  The     *)
(* plugin is active (pluginActive()).  The node registry holds the sensors *)
(* and lights below for the whole run.                                     *)
(***************************************************************************)
\* getSensorNodeForId returns a null pointer
NoSensor == 0

\* the sensor nodes: isAvailable(), node() # 0, the active endpoints of the
\* node, address().ext(), config().on(); the sensors 1 and 11 are sensors
\* of devices in the network, sensor 11 is switched off, the other sensors
\* have no node
SensorNodes ==
    [id \in {s.id : s \in Sensors} |->
        IF id = 1
        THEN [available |-> TRUE, node |-> TRUE, endpoints |-> {1, 2}, ext |-> 11, on |-> TRUE]
        ELSE IF id = 11
        THEN [available |-> TRUE, node |-> TRUE, endpoints |-> {1, 2}, ext |-> 31, on |-> FALSE]
        ELSE [available |-> TRUE, node |-> FALSE, endpoints |-> {}, ext |-> 10 + id, on |-> TRUE]]

\* DeRestPluginPrivate::getSensorNodeForId (de_web_plugin.cpp:2663)
getSensorNodeForId(id) == IF id \in DOMAIN SensorNodes THEN id ELSE NoSensor

\* the light nodes getLightNodeForId finds: address().ext() and
\* haEndpoint().endpoint(); the lights 1 and 3 are two endpoints of one
\* device
LightNodes ==
    [id \in {1, 2, 3} |->
        IF id = 3 THEN [ext |-> 21, endpoint |-> 11] ELSE [ext |-> 20 + id, endpoint |-> 10]]

(***************************************************************************)
(* The node registry: the deCONZ nodes of the devices, the availability of *)
(* the lights and of the sensors (de_web_plugin.cpp:1380-1484, 1741-1757,  *)
(* 1846-1924, 2517-2526, 4413-4530).                                       *)
(***************************************************************************)
\* fingerPrint().hasEndpoint() is false
NoEndpoint == 255

\* sensor->fingerPrint().endpoint: the switches report from endpoint 2, the
\* presence and the illuminance sensor from endpoint 1, the other sensors
\* have no endpoint
SensorFingerPrint(id) ==
    IF id \in {1, 11} THEN 2 ELSE IF id \in {3, 4} THEN 1 ELSE NoEndpoint

\* address().ext() of the devices the core knows a node of
Devices == {11, 21, 22, 31}

\* the endpoints of the lights and of the sensors of device d
DeviceEndpoints(d) ==
    {LightNodes[l].endpoint : l \in {m \in DOMAIN LightNodes : LightNodes[m].ext = d}}
    \cup UNION {SensorNodes[s].endpoints : s \in {t \in DOMAIN SensorNodes : SensorNodes[t].ext = d}}

\* deCONZ::Node: isZombie(), state() == deCONZ::FailureState, endpoints()
Node(zombie, failure, endpoints) ==
    [zombie |-> zombie, failure |-> failure, endpoints |-> endpoints]

\* nodes.size()
NumLights == 3

\* DeRestPluginPrivate::getLightNodeForAddress (1741-1757); 0 when there is
\* no such light
getLightNodeForAddress(extAddr, endpoint) ==
    LET found == {l \in 1..NumLights :
                    /\ LightNodes[l].ext = extAddr
                    /\ (endpoint = 0 \/ endpoint = LightNodes[l].endpoint)}
    IN  IF found = {} THEN 0 ELSE CHOOSE l \in found : \A m \in found : l <= m

\* a checkSensorNodeReachable that does not ask whether the node is a zombie
checkSensorNodeReachableAnyNode(nodes, s, isAvailable, configReachable) ==
    LET reachable ==
            IF SensorFingerPrint(s) = NoEndpoint THEN TRUE
            ELSE IF SensorNodes[s].node
                 THEN SensorFingerPrint(s) \in nodes[SensorNodes[s].ext].endpoints
            ELSE FALSE
    IN  [reachable |-> reachable, available |-> reachable]

\* DeRestPluginPrivate::checkSensorNodeReachable (1846-1924): isAvailable()
\* and config().reachable() of sensor s after the call
checkSensorNodeReachable(nodes, s, isAvailable, configReachable) ==
    LET reachable ==
            IF SensorFingerPrint(s) = NoEndpoint THEN TRUE
            ELSE IF SensorNodes[s].node /\ ~nodes[SensorNodes[s].ext].zombie
                 THEN SensorFingerPrint(s) \in nodes[SensorNodes[s].ext].endpoints
            ELSE FALSE
    IN  [reachable |-> IF configReachable # reachable THEN reachable ELSE configReachable,
         available |-> IF reachable
                       THEN IF ~isAvailable THEN TRUE ELSE isAvailable
                       ELSE IF isAvailable THEN FALSE ELSE isAvailable]

RECURSIVE ZombieLights(_, _, _, _, _)
\* the loop of nodeZombieStateChanged over the lights from position i on
\* (1389-1417); avail is the variable available, one for all lights
ZombieLights(la, nodes, d, i, avail) ==
    IF i > NumLights THEN la
    ELSE IF LightNodes[i].ext # d THEN ZombieLights(la, nodes, d, i + 1, avail)
    ELSE IF la[i] # avail
         THEN LET a == IF avail /\ LightNodes[i].endpoint \notin nodes[d].endpoints
                       THEN FALSE ELSE avail
              IN  ZombieLights([la EXCEPT ![i] = a], nodes, d, i + 1, a)
    ELSE ZombieLights(la, nodes, d, i + 1, avail)

\* the sensors of nodeZombieStateChanged (1420-1437) and of
\* checkAllSensorsAvailable (2517-2526): checkSensorNodeReachable on every
\* sensor of S
CheckSensors(nodes, S, sa, sr) ==
    [s \in DOMAIN SensorNodes |->
        IF s \in S THEN checkSensorNodeReachable(nodes, s, sa[s], sr[s])
        ELSE [reachable |-> sr[s], available |-> sa[s]]]

\* sensor->enableRead(READ_BINDING_TABLE) of the sensors checkSensorNodeReachable
\* finds available again (1886-1894): the read flags of the sensors after
\* the checks with result r
EnableReadAvailable(sa, r, sr) ==
    [s \in DOMAIN SensorNodes |->
        IF r[s].available /\ ~sa[s] THEN sr[s] \cup {"READ_BINDING_TABLE"} ELSE sr[s]]

\* if (sensor->deletedState() == Sensor::StateDeleted && gwPermitJoinDuration > 0)
\* (1898): the sensors of S checkSensorNodeReachable sets back to StateNormal
Rediscovered(S, r, sd, pj) == {s \in S : r[s].reachable /\ sd[s] /\ pj > 0}

\* sensor->setDeletedState(Sensor::StateNormal)   (1901)
SetNormal(sd, S) == [s \in DOMAIN SensorNodes |-> IF s \in S THEN FALSE ELSE sd[s]]

\* sensor->enableRead(READ_BINDING_TABLE | READ_GROUP_IDENTIFIERS |
\* READ_MODEL_ID | READ_VENDOR_NAME) of the sensors of S   (1903)
EnableReadRediscovered(sr, S) ==
    [s \in DOMAIN SensorNodes |->
        IF s \in S
        THEN sr[s] \cup {"READ_BINDING_TABLE", "READ_GROUP_IDENTIFIERS", "READ_MODEL_ID",
                         "READ_VENDOR_NAME"}
        ELSE sr[s]]

\* the sensors whose address is the address of device d
SensorsOf(d) == {s \in DOMAIN SensorNodes : SensorNodes[s].ext = d}

\* DeRestPluginPrivate::updateLightNode (1447-1484): isAvailable() of the
\* lights after an event of endpoint ep of device d
updateLightNode(la, nodes, d, ep) ==
    LET l == getLightNodeForAddress(d, ep)
    IN  IF l = 0 THEN la
        ELSE IF la[l]
             THEN IF nodes[d].failure \/ nodes[d].zombie THEN [la EXCEPT ![l] = FALSE] ELSE la
        ELSE IF ~nodes[d].failure THEN [la EXCEPT ![l] = TRUE] ELSE la

\* history of a node event: its kind, the device and the endpoint
NodeEvent(event, d, ep) == [event |-> event, device |-> d, endpoint |-> ep]

\* nodeEvent(NodeZombieChanged) of device d: nodeZombieStateChanged (1380-1438)
NodeZombieChanged(D) ==
    /\ \E d \in D :
         LET nodes == [deviceNodes EXCEPT ![d].zombie = ~@]
             r == CheckSensors(nodes, SensorsOf(d), sensorAvailable, sensorReachable)
         IN  /\ deviceNodes' = nodes
             /\ lightAvailable' = ZombieLights(lightAvailable, nodes, d, 1, ~nodes[d].zombie)
             /\ sensorAvailable' = [s \in DOMAIN SensorNodes |-> r[s].available]
             /\ sensorReachable' = [s \in DOMAIN SensorNodes |-> r[s].reachable]
             /\ sensorRead' = EnableReadRediscovered(
                                  EnableReadAvailable(sensorAvailable, r, sensorRead),
                                  Rediscovered(SensorsOf(d), r, sensorDeleted, permitJoin))
             /\ sensorDeleted' = SetNormal(sensorDeleted,
                                           Rediscovered(SensorsOf(d), r, sensorDeleted, permitJoin))
             /\ nlast' = NodeEvent("NodeZombieChanged", d, 0)
    /\ last' = Op("nodeEvent", NoArg, TRUE, NoPass)
    /\ UNCHANGED <<tasks, runningTasks, inNetwork, available, sendTime, now, nOffered, lastId,
                   sentSinceTick>>
    /\ UNCHANGED <<rules, nPosts, issued, bindingQueue, rlast, gpVars, tickVars, groupVars>>
    /\ UNCHANGED <<lightRead, lightAttrIter, sensorAttrIter, nAttrTicks, zlast, permitJoin, sceneVars>>

\* the endpoints an event of a light cluster names: none, the endpoints of
\* the lights, an endpoint without a light
EventEndpoints == {0, 10, 11, 12}

\* nodeEvent(UpdatedClusterData) of the on/off cluster of an endpoint of
\* device d, whose node is in the state the core has seen last:
\* updateLightNode (4466-4523)
UpdatedClusterData(D) ==
    /\ \E d \in D, ep \in EventEndpoints, failure \in BOOLEAN :
         LET nodes == [deviceNodes EXCEPT ![d].failure = failure]
         IN  /\ deviceNodes' = nodes
             /\ lightAvailable' = updateLightNode(lightAvailable, nodes, d, ep)
             /\ nlast' = NodeEvent("UpdatedClusterData", d, ep)
    /\ last' = Op("nodeEvent", NoArg, TRUE, NoPass)
    /\ UNCHANGED <<tasks, runningTasks, inNetwork, available, sendTime, now, nOffered, lastId,
                   sentSinceTick>>
    /\ UNCHANGED <<rules, nPosts, issued, bindingQueue, rlast, gpVars, tickVars, groupVars,
                   sensorAvailable, sensorReachable>>
    /\ UNCHANGED <<attrVars, lifeVars>>

\* nodeEvent(UpdatedClusterData) of the active endpoints response of device
\* d, whose node lists the endpoints of the response: updateSensorNode
\* (2217-2249, 4478-4482)
ActiveEndpointsUpdated(D) ==
    /\ \E d \in D : \E endpoints \in SUBSET DeviceEndpoints(d) :
         LET nodes == [deviceNodes EXCEPT ![d].endpoints = endpoints]
             r == CheckSensors(nodes, SensorsOf(d), sensorAvailable, sensorReachable)
         IN  /\ deviceNodes' = nodes
             /\ sensorAvailable' = [s \in DOMAIN SensorNodes |-> r[s].available]
             /\ sensorReachable' = [s \in DOMAIN SensorNodes |-> r[s].reachable]
             /\ sensorRead' = EnableReadRediscovered(
                                  EnableReadAvailable(sensorAvailable, r, sensorRead),
                                  Rediscovered(SensorsOf(d), r, sensorDeleted, permitJoin))
             /\ sensorDeleted' = SetNormal(sensorDeleted,
                                           Rediscovered(SensorsOf(d), r, sensorDeleted, permitJoin))
             /\ nlast' = NodeEvent("ActiveEndpoints", d, 0)
    /\ last' = Op("nodeEvent", NoArg, TRUE, NoPass)
    /\ UNCHANGED <<tasks, runningTasks, inNetwork, available, sendTime, now, nOffered, lastId,
                   sentSinceTick>>
    /\ UNCHANGED <<rules, nPosts, issued, bindingQueue, rlast, gpVars, tickVars, groupVars,
                   lightAvailable>>
    /\ UNCHANGED <<lightRead, lightAttrIter, sensorAttrIter, nAttrTicks, zlast, permitJoin, sceneVars>>

\* DeRestPluginPrivate::checkAllSensorsAvailable (2517-2526)
CheckAllSensorsAvailable ==
    /\ LET r == CheckSensors(deviceNodes, DOMAIN SensorNodes, sensorAvailable, sensorReachable)
       IN  /\ sensorAvailable' = [s \in DOMAIN SensorNodes |-> r[s].available]
           /\ sensorReachable' = [s \in DOMAIN SensorNodes |-> r[s].reachable]
           /\ sensorRead' = EnableReadRediscovered(
                                EnableReadAvailable(sensorAvailable, r, sensorRead),
                                Rediscovered(DOMAIN SensorNodes, r, sensorDeleted, permitJoin))
           /\ sensorDeleted' = SetNormal(sensorDeleted,
                                         Rediscovered(DOMAIN SensorNodes, r, sensorDeleted, permitJoin))
    /\ nlast' = NodeEvent("checkAllSensorsAvailable", 0, 0)
    /\ last' = Op("nodeEvent", NoArg, TRUE, NoPass)
    /\ UNCHANGED <<tasks, runningTasks, inNetwork, available, sendTime, now, nOffered, lastId,
                   sentSinceTick>>
    /\ UNCHANGED <<rules, nPosts, issued, bindingQueue, rlast, gpVars, tickVars, groupVars,
                   deviceNodes, lightAvailable>>
    /\ UNCHANGED <<lightRead, lightAttrIter, sensorAttrIter, nAttrTicks, zlast, permitJoin, sceneVars>>

(***************************************************************************)
(* Group membership of the lights: handleGroupClusterIndication and        *)
(* processGroupTasks (de_web_plugin.cpp:3615-3673, 4540-4629, 4636-4823).  *)
(* No scene is stored, removed or modified during a run: the lists         *)
(* addScenes, removeScenes and modifyScenes of every GroupInfo are empty.  *)
(***************************************************************************)
\* static uint MaxGroupTasks = 4
MaxGroupTasks == 4

\* Group::state() and m_deviceMemberships of the groups of the group table:
\* the groups 1 and 2 were created by a user, group 3 by a switch
GroupTable ==
    [g \in {1, 2, 3} |->
        [state |-> "StateNormal", deviceMemberships |-> IF g = 3 THEN {5} ELSE {}]]

\* GroupInfo: id, state and the action bits
GroupInfo(id, state, actions) == [id |-> id, state |-> state, actions |-> actions]

\* group->state() != Group::StateNormal && group->m_deviceMemberships.size() == 0
\* (3633, 3655)
DeletedUserGroup(g) ==
    GroupTable[g].state # "StateNormal" /\ GroupTable[g].deviceMemberships = {}

\* DeRestPluginPrivate::foundGroupMembership (3615-3673): groups() of the
\* light after the call
foundGroupMembership(gs, g) ==
    IF \E i \in 1..Len(gs) : gs[i].id = g
    THEN LET i == CHOOSE k \in 1..Len(gs) : gs[k].id = g /\ \A j \in 1..(k - 1) : gs[j].id # g
         IN  IF DeletedUserGroup(g)
             THEN [gs EXCEPT ![i] = GroupInfo(g, "StateNotInGroup",
                                       (@.actions \ {"ActionAddToGroup"}) \cup {"ActionRemoveFromGroup"})]
             ELSE gs
    ELSE IF DeletedUserGroup(g)
         THEN Append(gs, GroupInfo(g, "StateNotInGroup", {"ActionRemoveFromGroup"}))
         ELSE Append(gs, GroupInfo(g, "StateInGroup", {}))

\* the payload of a response of the group cluster: the command, the fields
\* capacity and count and the group list of a GetGroupMembership response,
\* the fields status and group id of an AddGroup or RemoveGroup response
GroupResponse(cmd, capacity, count, groups, status, groupId) ==
    [cmd |-> cmd, capacity |-> capacity, count |-> count, groups |-> groups,
     status |-> status, groupId |-> groupId]

\* the group ids the loop over count reads from the payload (4673-4689)
ResponseGroups(rsp) ==
    SubSeq(rsp.groups, 1, IF rsp.count < Len(rsp.groups) THEN rsp.count ELSE Len(rsp.groups))

RECURSIVE FoundGroups(_, _, _)
\* foundGroupMembership for the group ids of the response from position i on
FoundGroups(gs, rg, i) ==
    IF i > Len(rg) THEN gs ELSE FoundGroups(foundGroupMembership(gs, rg[i]), rg, i + 1)

Range(s) == {s[i] : i \in 1..Len(s)}

\* the loop over the groups of the light (4691-4735): a user group the
\* response omits is restored, a switch group follows the response
RestoreGroups(gs, rg) ==
    [i \in 1..Len(gs) |->
        LET gi == gs[i]
            group == GroupTable[gi.id]
        IN  IF /\ group.state = "StateNormal"
               /\ group.deviceMemberships = {}
               /\ gi.id \notin Range(rg)
               /\ gi.state = "StateInGroup"
            THEN GroupInfo(gi.id, "StateInGroup",
                           (gi.actions \ {"ActionRemoveFromGroup"}) \cup {"ActionAddToGroup"})
            ELSE IF group.state = "StateNormal" /\ group.deviceMemberships # {}
                 THEN IF gi.id \in Range(rg) /\ gi.state = "StateNotInGroup"
                      THEN GroupInfo(gi.id, "StateInGroup", gi.actions)
                      ELSE IF gi.id \notin Range(rg) /\ gi.state = "StateInGroup"
                           THEN GroupInfo(gi.id, "StateNotInGroup", gi.actions)
                      ELSE gi
            ELSE gi]

\* DeRestPluginPrivate::getNumberOfEndpoints (1761-1777)
getNumberOfEndpoints(extAddr) ==
    Cardinality({l \in 1..NumLights : LightNodes[l].ext = extAddr})

\* DeRestPluginPrivate::getGroupInfo (2776-2794): is there a GroupInfo of the group
HasGroupInfo(gs, g) == \E i \in 1..Len(gs) : gs[i].id = g

\* the membership of one light: groups(), groupCapacity(), groupCount()
Membership(gs, capacity, count) == [groups |-> gs, capacity |-> capacity, count |-> count]

\* the AddGroup response with status 0 (4751-4766)
handleAddGroup(m, endpointCount) ==
    Membership(m.groups,
               IF m.capacity >= endpointCount THEN m.capacity - endpointCount ELSE m.capacity,
               IF m.count < 255 THEN m.count + 1 ELSE m.count)

\* the RemoveGroup response with status 0 for a group the light has a
\* GroupInfo of (4788-4815)
handleRemoveGroup(m, endpointCount) ==
    Membership(m.groups,
               IF m.capacity + endpointCount <= 255 THEN m.capacity + endpointCount ELSE m.capacity,
               IF m.count > 0 THEN m.count - 1 ELSE m.count)

\* DeRestPluginPrivate::handleGroupClusterIndication (4636-4823) for a
\* response of a light with membership m
handleGroupClusterIndication(m, rsp, endpointCount) ==
    IF rsp.cmd = "GetGroupMembershipResponse"
    THEN Membership(RestoreGroups(FoundGroups(m.groups, ResponseGroups(rsp), 1), ResponseGroups(rsp)),
                    rsp.capacity, rsp.count)
    ELSE IF rsp.cmd = "AddGroupResponse"
         THEN IF rsp.status = 0 THEN handleAddGroup(m, endpointCount) ELSE m
    ELSE IF rsp.status = 0 /\ HasGroupInfo(m.groups, rsp.groupId)
         THEN handleRemoveGroup(m, endpointCount)
    ELSE m

\* history of the group cluster: the event handled last, the light it was
\* about (0 when there is none), the response, the membership of the light
\* before the event, the group whose request the group task timer enqueued
\* (0 when there is none)
GroupEvent(op, light, rsp, before, enqueued) ==
    [op |-> op, light |-> light, rsp |-> rsp, before |-> before, enqueued |-> enqueued]

NoResponse == GroupResponse("none", 0, 0, << >>, 0, 0)

MembershipOf(l) == Membership(lightGroups[l], groupCapacity[l], groupCount[l])

\* the sources of the indications: the endpoints of the lights and an
\* endpoint without a light
IndicationSources == {<<21, 10>>, <<21, 11>>, <<22, 10>>, <<22, 12>>}

\* lightNode->enableRead(READ_SCENES) of foundGroupMembership (3651-3668):
\* a GetGroupMembership response names a group the light has no GroupInfo
\* of and that is not a deleted user group
ForcesSceneRead(gs, rsp) ==
    /\ rsp.cmd = "GetGroupMembershipResponse"
    /\ \E i \in 1..Len(ResponseGroups(rsp)) :
         /\ ~HasGroupInfo(gs, ResponseGroups(rsp)[i])
         /\ ~DeletedUserGroup(ResponseGroups(rsp)[i])

\* a response of the group cluster arrives from endpoint src[2] of device
\* src[1], a source of Sources; counted indications stop at cap
GroupClusterIndication(Sources, Responses, cap, counted) ==
    /\ counted => nIndications < cap
    /\ nIndications' = IF counted THEN nIndications + 1 ELSE nIndications
    /\ \E src \in Sources, rsp \in Responses :
         LET l == getLightNodeForAddress(src[1], src[2])
         IN  IF l = 0
             THEN /\ clast' = GroupEvent("indication", 0, rsp, Membership(<< >>, 0, 0), 0)
                  /\ UNCHANGED <<lightGroups, groupCapacity, groupCount, lightRead>>
             ELSE LET m == handleGroupClusterIndication(MembershipOf(l), rsp,
                                                        getNumberOfEndpoints(src[1]))
                  IN  /\ lightGroups' = [lightGroups EXCEPT ![l] = m.groups]
                      /\ groupCapacity' = [groupCapacity EXCEPT ![l] = m.capacity]
                      /\ groupCount' = [groupCount EXCEPT ![l] = m.count]
                      /\ lightRead' = IF ForcesSceneRead(lightGroups[l], rsp)
                                      THEN [lightRead EXCEPT ![l] = @ \cup {"READ_SCENES"}]
                                      ELSE lightRead
                      /\ clast' = GroupEvent("indication", l, rsp, MembershipOf(l), 0)
    /\ last' = Op("groupClusterIndication", NoArg, TRUE, NoPass)
    /\ UNCHANGED <<tasks, runningTasks, inNetwork, available, sendTime, now, nOffered, lastId,
                   sentSinceTick, groupTaskNodeIter>>
    /\ UNCHANGED <<rules, nPosts, issued, bindingQueue, rlast, gpVars, tickVars,
                   deviceNodes, sensorAvailable, sensorReachable, lightAvailable, nlast>>
    /\ UNCHANGED <<sensorRead, lightAttrIter, sensorAttrIter, nAttrTicks, zlast, lifeVars>>

\* a loop of processGroupTasks that looks at the first group of the light only
FirstFlaggedHeadOnly(gs) ==
    IF gs # << >> /\ gs[1].actions # {} THEN 1 ELSE 0

\* the loop of processGroupTasks over the groups of the light (4581-4628):
\* the position of the first GroupInfo with an action bit, 0 when there is
\* none
FirstFlagged(gs) ==
    IF \E i \in 1..Len(gs) : gs[i].actions # {}
    THEN CHOOSE i \in 1..Len(gs) : gs[i].actions # {} /\ \A j \in 1..(i - 1) : gs[j].actions = {}
    ELSE 0

\* the TaskItem of addTaskAddToGroup and of addTaskRemoveFromGroup: a
\* request of the group cluster to the endpoint of the light
GroupTask(type, l, id) ==
    TaskItem(id, type, ExtAddr(LightNodes[l].ext), LightNodes[l].endpoint, TRUE, FALSE, id)

\* addTaskAddToGroup(task, groupId): builds the request and calls addTask
addTaskAddToGroup(ts, net, l, id) == addTask(ts, net, GroupTask("TaskAddToGroup", l, id))

\* addTaskRemoveFromGroup(task, groupId): builds the request and calls addTask
addTaskRemoveFromGroup(ts, net, l, id) == addTask(ts, net, GroupTask("TaskRemoveFromGroup", l, id))

\* the request ids of the group tasks are counted up to MaxOffers
NextOffered(n) == IF n < MaxOffers THEN n + 1 ELSE n

\* the result of processGroupTasks: tasks, groupTaskNodeIter, the groups of
\* the lights, the light looked at (0 when the call returned before) and
\* the group whose request was enqueued (0 when there is none)
GroupPass(ts, iter, lg, light, enqueued) ==
    [tasks |-> ts, iter |-> iter, groups |-> lg, light |-> light, enqueued |-> enqueued]

\* DeRestPluginPrivate::processGroupTasks (4540-4629)
processGroupTasks(ts, net, iter, la, lg, id) ==
    IF ~net THEN GroupPass(ts, iter, lg, 0, 0)
    ELSE IF Len(ts) > MaxGroupTasks THEN GroupPass(ts, iter, lg, 0, 0)
    ELSE LET at == IF iter >= NumLights THEN 0 ELSE iter
             l == at + 1
             k == FirstFlagged(lg[l])
         IN  IF ~la[l] THEN GroupPass(ts, at + 1, lg, l, 0)
             ELSE IF k = 0 THEN GroupPass(ts, at + 1, lg, l, 0)
             ELSE IF "ActionAddToGroup" \in lg[l][k].actions
                  THEN LET r == addTaskAddToGroup(ts, net, l, id)
                       IN  IF r.ret
                           THEN GroupPass(r.tasks, at + 1,
                                          [lg EXCEPT ![l][k].actions = @ \ {"ActionAddToGroup"}],
                                          l, lg[l][k].id)
                           ELSE GroupPass(r.tasks, at + 1, lg, l, 0)
             ELSE LET r == addTaskRemoveFromGroup(ts, net, l, id)
                  IN  IF r.ret
                      THEN GroupPass(r.tasks, at + 1,
                                     [lg EXCEPT ![l][k].actions = @ \ {"ActionRemoveFromGroup"}],
                                     l, lg[l][k].id)
                      ELSE GroupPass(r.tasks, at + 1, lg, l, 0)

\* the group task timer fires (250 ms): processGroupTasks()   (194-198)
GroupTaskTimerFired ==
    /\ LET p == processGroupTasks(tasks, inNetwork, groupTaskNodeIter, lightAvailable,
                                  lightGroups, nOffered)
       IN  /\ tasks' = p.tasks
           /\ groupTaskNodeIter' = p.iter
           /\ lightGroups' = p.groups
           /\ nOffered' = IF p.enqueued # 0 THEN NextOffered(nOffered) ELSE nOffered
           /\ lastId' = IF p.enqueued # 0 THEN nOffered ELSE lastId
           /\ clast' = GroupEvent("tick", p.light, NoResponse,
                                  IF p.light = 0 THEN Membership(<< >>, 0, 0)
                                  ELSE MembershipOf(p.light),
                                  p.enqueued)
    /\ last' = Op("processGroupTasks", NoArg, TRUE, NoPass)
    /\ UNCHANGED <<runningTasks, inNetwork, available, sendTime, now, sentSinceTick>>
    /\ UNCHANGED <<groupCapacity, groupCount, nIndications>>
    /\ UNCHANGED <<rules, nPosts, issued, bindingQueue, rlast, gpVars, tickVars,
                   deviceNodes, sensorAvailable, sensorReachable, lightAvailable, nlast>>
    /\ UNCHANGED <<attrVars, lifeVars>>

\* the memberships after the lights were loaded: light 1 is a member of the
\* user groups 1 and 2, light 2 of the user group 1 and of the switch group
\* 3, light 3 was removed from the switch group; no action is pending
InitGroups ==
    /\ lightGroups = [l \in DOMAIN LightNodes |->
                        IF l = 1 THEN <<GroupInfo(1, "StateInGroup", {}), GroupInfo(2, "StateInGroup", {})>>
                        ELSE IF l = 2
                             THEN <<GroupInfo(1, "StateInGroup", {}), GroupInfo(3, "StateInGroup", {})>>
                        ELSE <<GroupInfo(3, "StateNotInGroup", {})>>]
    /\ groupCapacity = [l \in DOMAIN LightNodes |-> 8]
    /\ groupCount = [l \in DOMAIN LightNodes |-> Len(lightGroups[l])]
    /\ groupTaskNodeIter = 0
    /\ nIndications = 0
    /\ clast = GroupEvent("init", 0, NoResponse, Membership(<< >>, 0, 0), 0)

\* history of the attribute timer: the light and the sensor whose call of
\* processZclAttributes returned true (0 when there is none), the value of
\* processed and the number of requests addTask accepted in that call
AttrTick(light, lightProcessed, lightEnqueued, sensor, sensorProcessed, sensorEnqueued) ==
    [light |-> light, lightProcessed |-> lightProcessed, lightEnqueued |-> lightEnqueued,
     sensor |-> sensor, sensorProcessed |-> sensorProcessed, sensorEnqueued |-> sensorEnqueued]

\* the in clusters of the finger print of the sensors that addSensorNode
\* added: the switch 1 has the commissioning cluster, the presence sensor
\* the occupancy sensing cluster
SensorInClusters(s) ==
    IF s = 1 THEN {"BASIC", "COMMISSIONING"}
    ELSE IF s = 3 THEN {"BASIC", "OCCUPANCY_SENSING"}
    ELSE IF s \in {4, 11} THEN {"BASIC"}
    ELSE {}

\* the read flags after the lights (1352-1360) and the sensors (2170-2197)
\* were added; the attribute timer has not fired
InitAttr ==
    /\ lightRead = [l \in DOMAIN LightNodes |->
                      {"READ_VENDOR_NAME", "READ_MODEL_ID", "READ_SWBUILD_ID", "READ_COLOR",
                       "READ_LEVEL", "READ_ON_OFF", "READ_GROUPS", "READ_SCENES",
                       "READ_BINDING_TABLE"}]
    /\ sensorRead = [s \in DOMAIN SensorNodes |->
                       IF SensorInClusters(s) = {} THEN {}
                       ELSE {"READ_BINDING_TABLE"}
                            \cup (IF "OCCUPANCY_SENSING" \in SensorInClusters(s)
                                  THEN {"READ_OCCUPANCY_CONFIG"} ELSE {})
                            \cup (IF "COMMISSIONING" \in SensorInClusters(s)
                                  THEN {"READ_GROUP_IDENTIFIERS"} ELSE {})
                            \cup (IF "BASIC" \in SensorInClusters(s)
                                  THEN {"READ_MODEL_ID", "READ_VENDOR_NAME"} ELSE {})]
    /\ lightAttrIter = 0
    /\ sensorAttrIter = 0
    /\ nAttrTicks = 0
    /\ zlast = AttrTick(0, 0, 0, 0, 0, 0)

\* the group ids of the GroupInfo records and of the responses: the groups
\* of the group table and one group that is not in it
SceneGroupIds == DOMAIN GroupTable \cup {9}

\* a response of the scene cluster: command, status, capacity, group id,
\* count and scene ids of a GetSceneMembership response, the scene id of a
\* StoreScene or RemoveScene response
SceneResponse(cmd, status, capacity, groupId, count, scenes) ==
    [cmd |-> cmd, status |-> status, capacity |-> capacity, groupId |-> groupId,
     count |-> count, scenes |-> scenes]

\* history of a response of the scene cluster: the light it came from, the
\* response, whether getGroupForId found the group
SceneEvent(light, rsp, known) == [light |-> light, rsp |-> rsp, known |-> known]

\* the scene fields after the lights were added: LightNode() and GroupInfo()
\* set capacity and count to 0, no response was handled
InitScenes ==
    /\ sceneCapacity = [l \in DOMAIN LightNodes |-> 0]
    /\ sceneCount = [l \in DOMAIN LightNodes |-> [g \in SceneGroupIds |-> 0]]
    /\ crashed = FALSE
    /\ nSceneRsp = 0
    /\ slast = SceneEvent(0, SceneResponse("none", 0, 0, 0, 0, << >>), TRUE)

\* the registry after the nodes were added: every node alive with the
\* endpoints of its lights and sensors, every light and sensor available
\* (1177, 1197, 2111)
InitNodes ==
    /\ deviceNodes = [d \in Devices |-> Node(FALSE, FALSE, DeviceEndpoints(d))]
    /\ sensorAvailable = [s \in DOMAIN SensorNodes |-> SensorNodes[s].available]
    /\ sensorReachable = [s \in DOMAIN SensorNodes |-> TRUE]
    /\ lightAvailable = [l \in DOMAIN LightNodes |-> TRUE]
    /\ nlast = NodeEvent("init", 0, 0)
    /\ InitGroups
    /\ InitAttr
    /\ sensorDeleted = [s \in DOMAIN SensorNodes |-> FALSE]
    /\ permitJoin = 0
    /\ InitScenes

\* the value of a decimal digit
DigitValue(c) ==
    CASE c = "0" -> 0 [] c = "1" -> 1 [] c = "2" -> 2 [] c = "3" -> 3 [] c = "4" -> 4
      [] c = "5" -> 5 [] c = "6" -> 6 [] c = "7" -> 7 [] c = "8" -> 8 [] c = "9" -> 9

RECURSIVE Decimal(_, _)
\* the number the first n characters of v denote
Decimal(v, n) == IF n = 0 THEN 0 ELSE 10 * Decimal(v, n - 1) + DigitValue(v[n])

\* QString::toUShort(&ok): ok for one to five digits that denote at most 65535
ToUShort(v) ==
    IF Len(v) \in 1..5 /\ (\A i \in 1..Len(v) : v[i] \in Digits) /\ Decimal(v, Len(v)) <= 65535
    THEN [ok |-> TRUE, value |-> Decimal(v, Len(v))]
    ELSE [ok |-> FALSE, value |-> 0]

\* the attributes whose eq condition names the binding source (1087-1089)
BindingSourceAttrs == {"/state/buttonevent", "/state/illuminance", "/state/presence"}

\* srcAddress = 0, srcEndpoint = 0, sensorNode = 0   (1048-1052)
NoSource == [sensor |-> NoSensor, addr |-> 0, ep |-> 0]

RECURSIVE SearchSource(_, _, _)
\* search in conditions for binding srcAddress and srcEndpoint (1072-1138):
\* sensorNode is the sensor of the last eq condition looked at, srcAddress
\* and srcEndpoint those of the last condition whose value is an endpoint
SearchSource(conditions, i, src) ==
    IF i > Len(conditions) THEN src
    ELSE IF \/ conditions[i].operator # "eq"
            \/ conditions[i].address.attr \notin BindingSourceAttrs
         THEN SearchSource(conditions, i + 1, src)
    ELSE LET s == getSensorNodeForId(conditions[i].address.sensor)
             ep == ToUShort(conditions[i].value)
         IN  IF /\ s # NoSensor
                /\ sensorAvailable[s]
                /\ SensorNodes[s].node
                /\ ep.ok
                /\ ep.value \in deviceNodes[SensorNodes[s].ext].endpoints
             THEN SearchSource(conditions, i + 1,
                               [sensor |-> s, addr |-> SensorNodes[s].ext, ep |-> ep.value])
             ELSE SearchSource(conditions, i + 1, [src EXCEPT !.sensor = s])

\* the words queueCheckRuleBindings looks for in the serialized body of an
\* action, in the order it looks for them, with the cluster of each
\* (1232-1260)
ClusterWords == <<"on", "bri", "scene", "illum", "occ">>

\* the words of ClusterWords that are part of a key of an action body as
\* QString::contains finds them: "on" is also part of "transitiontime"
WordsIn(key) ==
    CASE key = "on" -> {"on"}
      [] key = "bri" -> {"bri"}
      [] key = "scene" -> {"scene"}
      [] key = "transitiontime" -> {"on"}
      [] OTHER -> {}

\* i->body().contains(word)
BodyContains(keys, word) == \E k \in keys : word \in WordsIn(k)

\* a queueBindingTask that does not look for an equal task
queueBindingTaskAlways(bq, bindingTask) ==
    IF ~inNetwork THEN bq ELSE Append(bq, bindingTask)

\* DeRestPluginPrivate::queueBindingTask (1022-1040)
queueBindingTask(bq, bindingTask) ==
    IF ~inNetwork THEN bq
    ELSE IF \E j \in 1..Len(bq) : bq[j] = bindingTask THEN bq
    ELSE Append(bq, bindingTask)

RECURSIVE QueueClusters(_, _, _, _)
\* one queueBindingTask per word of ClusterWords the body contains (1232-1260)
QueueClusters(bq, bindingTask, keys, w) ==
    IF w > Len(ClusterWords) THEN bq
    ELSE IF BodyContains(keys, ClusterWords[w])
         THEN QueueClusters(queueBindingTask(bq, [bindingTask EXCEPT !.clusterId = ClusterWords[w]]),
                            bindingTask, keys, w + 1)
         ELSE QueueClusters(bq, bindingTask, keys, w + 1)

\* the BindingTask of queueCheckRuleBindings before the actions are looked
\* at (1048-1051, 1152)
BindingTask(action, src) ==
    [state |-> "StateCheck", action |-> action, restNode |-> src.sensor,
     srcAddress |-> src.addr, srcEndpoint |-> src.ep,
     dstAddrMode |-> "none", dstAddress |-> 0, dstEndpoint |-> 0, clusterId |-> "none"]

RECURSIVE SearchDestinations(_, _, _, _)
\* search in actions for binding dstAddress, dstEndpoint and clusterId
\* (1156-1265); bindingTask is one object for all actions
SearchDestinations(bq, actions, i, bindingTask) ==
    IF i > Len(actions) THEN bq
    ELSE IF actions[i].method # "BIND"
         THEN SearchDestinations(bq, actions, i + 1, bindingTask)
    ELSE LET a  == actions[i].address
             t1 == IF ~SensorNodes[bindingTask.restNode].on
                   THEN [bindingTask EXCEPT !.action = "ActionUnbind"]
                   ELSE bindingTask
             t2 == IF a.res = "groups"
                   THEN [t1 EXCEPT !.dstAddress = a.id, !.dstAddrMode = "ApsGroupAddress"]
                   ELSE IF a.res = "lights" /\ a.id \in DOMAIN LightNodes
                   THEN [t1 EXCEPT !.dstAddress = LightNodes[a.id].ext,
                                   !.dstEndpoint = LightNodes[a.id].endpoint,
                                   !.dstAddrMode = "ApsExtAddress"]
                   ELSE t1
             ok == a.res = "groups" \/ (a.res = "lights" /\ a.id \in DOMAIN LightNodes)
         IN  IF ok
             THEN SearchDestinations(QueueClusters(bq, t2, actions[i].keys, 1), actions, i + 1, t2)
             ELSE SearchDestinations(bq, actions, i + 1, t2)

\* a queueCheckRuleBindings that leaves the bindings of a rule that is
\* deleted or disabled alone
queueCheckRuleBindingsBindOnly(bq, rule) ==
    LET src == SearchSource(rule.conditions, 1, NoSource)
    IN  IF ~(rule.state = "StateNormal" /\ rule.status = "enabled") THEN bq
        ELSE IF src.sensor = NoSensor THEN bq
        ELSE IF src.addr = 0 \/ src.ep = 0 THEN bq
        ELSE SearchDestinations(bq, rule.actions, 1, BindingTask("ActionBind", src))

\* DeRestPluginPrivate::queueCheckRuleBindings (1046-1272): the binding queue
\* after the call
queueCheckRuleBindings(bq, rule) ==
    LET action == IF rule.state = "StateNormal" /\ rule.status = "enabled" THEN "ActionBind"
                  ELSE IF rule.state = "StateDeleted" \/ rule.status = "disabled" THEN "ActionUnbind"
                  ELSE "none"
        src == SearchSource(rule.conditions, 1, NoSource)
    IN  IF action = "none" THEN bq
        ELSE IF src.sensor = NoSensor THEN bq
        ELSE IF src.addr = 0 \/ src.ep = 0 THEN bq
        ELSE SearchDestinations(bq, rule.actions, 1, BindingTask(action, src))

\* the BindingTasks queueCheckRuleBindings hands to queueBindingTask for a
\* rule: those it appends to an empty queue
Handed(rule) ==
    {queueCheckRuleBindings(<< >>, rule)[j] :
        j \in 1..Len(queueCheckRuleBindings(<< >>, rule))}

\* DeRestPluginPrivate::createRule (247-469)
createRule(rs, body) ==
    IF \/ "name" \notin body.has
       \/ SizeError(Len(body.conditions))
       \/ SizeError(Len(body.actions))
       \/ ("status" \in body.has /\ body.status \notin {"disabled", "enabled"})
    THEN Response(400, NoId, rs)
    ELSE IF body.name = "" THEN Response(400, NoId, rs)
    ELSE IF ~checkActions(body.actions) THEN Response(400, NoId, rs)
    ELSE IF ~checkConditions(body.conditions) THEN Response(400, NoId, rs)
    ELSE LET rule == [Rule(NewRuleId(rs, 1), body.name,
                           IF "status" \in body.has THEN body.status ELSE "enabled",
                           body.conditions, body.actions)
                      EXCEPT !.triggerPeriodic = body.periodic, !.etag = updateEtag(now)]
         IN  [Response(200, rule.id, StoreRule(rs, rule))
              EXCEPT !.queue = queueCheckRuleBindings(bindingQueue, rule)]

\* position of the first rule in state Normal with the id, 0 when there is
\* none: the loop of updateRule (600-610)
NormalRuleIndex(rs, id) ==
    IF \E k \in 1..Len(rs) : rs[k].state = "StateNormal" /\ rs[k].id = id
    THEN CHOOSE k \in 1..Len(rs) :
             /\ rs[k].state = "StateNormal" /\ rs[k].id = id
             /\ \A j \in 1..(k - 1) : ~(rs[j].state = "StateNormal" /\ rs[j].id = id)
    ELSE 0

\* the keys updateRule knows (510)
UpdateKeys == {"name", "status", "actions", "conditions", "periodic"}

\* the rule after the part of updateRule before the actions are looked at
\* (612-647): disabled when actions or conditions come, then name and status
UpdateHead(r, body) ==
    LET r1 == IF "actions" \in body.has \/ "conditions" \in body.has
              THEN [r EXCEPT !.status = "disabled"] ELSE r
        r2 == IF "name" \in body.has THEN [r1 EXCEPT !.name = body.name] ELSE r1
        r3 == IF "status" \in body.has THEN [r2 EXCEPT !.status = body.status] ELSE r2
    IN  IF "periodic" \in body.has THEN [r3 EXCEPT !.triggerPeriodic = body.periodic] ELSE r3

\* the flag changed at the end of updateRule (627-631, 642-646, 652-656, 662,
\* 695); the status is compared after the rule was disabled (615)
UpdateChanged(r, body) ==
    \/ "name" \in body.has /\ r.name # body.name
    \/ /\ "status" \in body.has
       /\ body.status # (IF "actions" \in body.has \/ "conditions" \in body.has
                         THEN "disabled" ELSE r.status)
    \/ "periodic" \in body.has /\ r.triggerPeriodic # body.periodic
    \/ "actions" \in body.has
    \/ "conditions" \in body.has

\* mutant of UpdateTail: the rule is not enabled again
UpdateTailKeepStatus(r, body) == r

\* the rule at the end of updateRule (726-729)
UpdateTail(r, body) ==
    IF "status" \notin body.has THEN [r EXCEPT !.status = "enabled"] ELSE r

\* DeRestPluginPrivate::updateRule (476-746)
updateRule(rs, id, body) ==
    IF ~(body.has \subseteq UpdateKeys) THEN Response(400, NoId, rs)
    ELSE IF \/ ("name" \in body.has /\ body.name = "")
            \/ ("conditions" \in body.has /\ SizeError(Len(body.conditions)))
            \/ ("actions" \in body.has /\ SizeError(Len(body.actions)))
            \/ ("status" \in body.has /\ body.status \notin {"disabled", "enabled"})
    THEN Response(400, NoId, rs)
    ELSE IF NormalRuleIndex(rs, id) = 0 THEN Response(200, NoId, rs)
    ELSE LET k  == NormalRuleIndex(rs, id)
             r3 == UpdateHead(rs[k], body)
             q  == IF "actions" \in body.has \/ "conditions" \in body.has
                   THEN queueCheckRuleBindings(bindingQueue, [rs[k] EXCEPT !.status = "disabled"])
                   ELSE bindingQueue
             r4 == IF "actions" \in body.has THEN [r3 EXCEPT !.actions = body.actions] ELSE r3
             r5 == IF "conditions" \in body.has
                   THEN [r4 EXCEPT !.conditions = body.conditions] ELSE r4
             r6 == IF UpdateChanged(rs[k], body)
                   THEN [UpdateTail(r5, body) EXCEPT !.etag = updateEtag(now)]
                   ELSE UpdateTail(r5, body)
         IN  IF "actions" \in body.has /\ ~checkActions(body.actions)
             THEN [Response(400, NoId, [rs EXCEPT ![k] = r3]) EXCEPT !.queue = q]
             ELSE IF "conditions" \in body.has /\ ~checkConditions(body.conditions)
             THEN [Response(400, NoId, [rs EXCEPT ![k] = r4]) EXCEPT !.queue = q]
             ELSE [Response(200, NoId, [rs EXCEPT ![k] = r6]) EXCEPT !.queue = q]

\* position of the rule DeRestPluginPrivate::getRuleForId returns, 0 for a
\* null pointer: the first rule with the id that is not deleted, else the
\* first rule with the id (de_web_plugin.cpp:1799-1823)
getRuleForId(rs, id) ==
    IF NormalRuleIndex(rs, id) # 0 THEN NormalRuleIndex(rs, id)
    ELSE IF \E k \in 1..Len(rs) : rs[k].id = id
         THEN CHOOSE k \in 1..Len(rs) :
                  /\ rs[k].id = id
                  /\ \A j \in 1..(k - 1) : rs[j].id # id
    ELSE 0

\* mutant of getRule: the state of the rule is not looked at
getRuleAnyState(rs, id) ==
    IF getRuleForId(rs, id) = 0 THEN Response(404, NoId, rs) ELSE Response(200, id, rs)

\* DeRestPluginPrivate::getRule (156-240)
getRule(rs, id) ==
    IF getRuleForId(rs, id) = 0 \/ rs[getRuleForId(rs, id)].state = "StateDeleted"
    THEN Response(404, NoId, rs)
    ELSE Response(200, id, rs)

\* DeRestPluginPrivate::getAllRules (69-148): the keys of rsp.map
getAllRules(rs) == {rs[k].id : k \in {j \in 1..Len(rs) : rs[j].state # "StateDeleted"}}

\* DeRestPluginPrivate::deleteRule (986-1017)
deleteRule(rs, id) ==
    IF getRuleForId(rs, id) = 0 \/ rs[getRuleForId(rs, id)].state = "StateDeleted"
    THEN Response(404, NoId, rs)
    ELSE [Response(200, id,
                   [rs EXCEPT ![getRuleForId(rs, id)] =
                       [@ EXCEPT !.state = "StateDeleted", !.status = "disabled"]])
          EXCEPT !.queue = queueCheckRuleBindings(bindingQueue,
                               [rs[getRuleForId(rs, id)] EXCEPT !.state = "StateDeleted",
                                                                !.status = "disabled"])]

(***************************************************************************)
(* The requests on /rules.  No condition of these requests has operator    *)
(* eq, so queueCheckRuleBindings finds no binding source for their rules   *)
(* and queues no BindingTask (1082-1085, 1158-1161).                       *)
(***************************************************************************)
\* n times the condition c; checkConditions accepts equal conditions
Repeated(c, n) == [i \in 1..n |-> c]

\* n PUT actions on the lights 1..n (equal addresses are refused)
LightActions(n) == [i \in 1..n |-> RuleAction("lights", i, "PUT", TRUE, {"on"})]

ButtonAbove == RuleCondition(SensorAddress(1, "/state/buttonevent"), "gt", <<"2">>)
ButtonBelow == RuleCondition(SensorAddress(1, "/state/buttonevent"), "lt", <<"2">>)
\* refused by checkConditions: dx with a value
ButtonChangedTo == RuleCondition(SensorAddress(1, "/state/buttonevent"), "dx", <<"2">>)
\* refused by checkActions: unsupported resource
OutletAction == RuleAction("outlets", 1, "PUT", TRUE, {"on"})

AllKeys == {"name", "conditions", "actions"}

\* bodies of POST requests that differ in their conditions, and one with too
\* many conditions
PostBodies ==
    { Body(AllKeys, "a", "", <<ButtonAbove>>, LightActions(1)),
      Body(AllKeys, "a", "", <<ButtonBelow>>, LightActions(1)),
      Body(AllKeys, "a", "", Repeated(ButtonAbove, 9), LightActions(1)) }

\* bodies of PUT requests: new conditions, and a key updateRule does not know
PutBodies ==
    { Body({"conditions"}, "", "", <<ButtonAbove>>, << >>),
      Body({"name", "owner"}, "a", "", << >>, << >>) }

\* bodies of POST requests with lists of every size class, with and without
\* the optional and the mandatory keys, and with lists the checks refuse
PostSizeBodies ==
    { Body(AllKeys, "a", "", <<ButtonAbove>>, LightActions(1)),
      Body(AllKeys, "a", "", Repeated(ButtonAbove, 8), LightActions(8)),
      Body(AllKeys \cup {"status"}, "a", "disabled", <<ButtonBelow>>, LightActions(1)),
      Body(AllKeys \cup {"status"}, "a", "on", <<ButtonAbove>>, LightActions(1)),
      Body(AllKeys, "a", "", << >>, LightActions(1)),
      Body(AllKeys, "a", "", Repeated(ButtonAbove, 9), LightActions(1)),
      Body(AllKeys, "a", "", <<ButtonAbove>>, << >>),
      Body(AllKeys, "a", "", <<ButtonAbove>>, LightActions(9)),
      Body({"name", "actions"}, "a", "", << >>, LightActions(1)),
      Body(AllKeys, "a", "", <<ButtonChangedTo>>, LightActions(1)),
      Body(AllKeys, "a", "", <<ButtonAbove>>, <<OutletAction>>),
      Body(AllKeys, "", "", <<ButtonAbove>>, LightActions(1)),
      Body({"conditions", "actions"}, "", "", <<ButtonAbove>>, LightActions(1)) }

\* bodies of PUT requests with lists of every size class, with lists the
\* checks refuse, and without lists
PutSizeBodies ==
    { Body({"conditions"}, "", "", <<ButtonBelow>>, << >>),
      Body({"conditions", "actions"}, "", "", Repeated(ButtonBelow, 8), LightActions(8)),
      Body({"status"}, "", "disabled", << >>, << >>),
      Body({"name"}, "b", "", << >>, << >>),
      Body({}, "", "", << >>, << >>),
      Body({"conditions"}, "", "", << >>, << >>),
      Body({"conditions"}, "", "", Repeated(ButtonAbove, 9), << >>),
      Body({"actions"}, "", "", << >>, << >>),
      Body({"actions"}, "", "", << >>, LightActions(9)),
      Body({"conditions"}, "", "", <<ButtonChangedTo>>, << >>),
      Body({"actions"}, "", "", << >>, <<OutletAction>>),
      Body({"actions", "conditions"}, "", "", <<ButtonChangedTo>>, LightActions(8)) }

\* buttonevent eq v: the value names the source endpoint of the bindings
ButtonIs(v) == RuleCondition(SensorAddress(1, "/state/buttonevent"), "eq", v)

\* a BIND action on a light; keys are the keys of its body
BindLight(id, keys) == RuleAction("lights", id, "BIND", TRUE, keys)

\* bodies of POST requests of rules with bindings
BindPostBodies ==
    { Body(AllKeys, "a", "", <<ButtonIs(<<"2">>)>>, <<BindLight(1, {"on"})>>) }

\* bodies of PUT requests on rules with bindings: the conditions and the
\* actions the rules are created with, other actions, actions checkActions
\* refuses, conditions checkConditions refuses behind actions it accepts,
\* conditions with a status, an empty list
BindPutBodies ==
    { Body({"conditions"}, "", "", <<ButtonIs(<<"2">>)>>, << >>),
      Body({"actions"}, "", "", << >>, <<BindLight(1, {"on"})>>),
      Body({"actions"}, "", "", << >>, <<BindLight(2, {"bri"})>>),
      WithPeriodic(Body({"actions"}, "", "", << >>, <<OutletAction>>), 1),
      Body({"actions", "conditions"}, "", "", <<ButtonChangedTo>>, <<BindLight(2, {"bri"})>>),
      Body({"status", "conditions"}, "", "disabled", <<ButtonIs(<<"2">>)>>, << >>),
      Body({"conditions"}, "", "", << >>, << >>) }

\* bodies of PUT requests that name the values PostBodies give a rule, and
\* bodies that name another name and another status
EtagPutBodies ==
    { Body({"name"}, "a", "", << >>, << >>),
      Body({"status"}, "", "enabled", << >>, << >>),
      WithPeriodic(Body({}, "", "", << >>, << >>), 0),
      Body({"actions"}, "", "", << >>, LightActions(1)),
      Body({"conditions"}, "", "", <<ButtonAbove>>, << >>),
      Body({"name"}, "b", "", << >>, << >>),
      Body({"status"}, "", "disabled", << >>, << >>) }

\* addresses of conditions: every attribute of the sensors 1 and 2, the
\* attribute of its type of every other sensor, an attribute sensor 1 does
\* not have
ConditionAddresses ==
    {SensorAddress(1, a) : a \in ValidAttrs("ZHASwitch") \cup {"/state/presence"}}
    \cup {SensorAddress(2, a) : a \in ValidAttrs("DaylightSensor") \ ValidAttrs("")}
    \cup UNION {{SensorAddress(s.id, a) : a \in ValidAttrs(s.type) \ ValidAttrs("")} :
                    s \in {t \in Sensors : t.id \in 3..10}}

\* values of conditions: none, a positive integer, a boolean, zero
ConditionValues == {<< >>, <<"2">>, <<"t", "r", "u", "e">>, <<"0">>}

\* the operators of conditions
ConditionOperators == {"eq", "lt", "gt", "dx"}

\* conditions of requests: every address of ConditionAddresses with every
\* operator and every value
ConditionSamples ==
    {RuleCondition(a, o, v) :
        a \in ConditionAddresses, o \in ConditionOperators, v \in ConditionValues}

\* bodies of POST requests with one condition: dx and eq on the button and
\* on lastupdated of sensor 1, with and without a value
ConditionPostBodies ==
    {Body(AllKeys, "a", "", <<RuleCondition(SensorAddress(1, a), o, v)>>, LightActions(1)) :
        a \in {"/state/buttonevent", "/state/lastupdated"},
        o \in {"dx", "eq"}, v \in {<< >>, <<"2">>}}

\* bodies of PUT requests with conditions: dx and eq on the button of sensor
\* 1, with and without a value
ConditionPutBodies ==
    {Body({"conditions"}, "", "", <<RuleCondition(SensorAddress(1, "/state/buttonevent"), o, v)>>, << >>) :
        o \in {"dx", "eq"}, v \in {<< >>, <<"2">>}}

\* the request without a body (DELETE)
NoBody == Body({}, "", "", << >>, << >>)

\* the ids a request path names: those the POST requests may have returned
RuleIds(cap) == 1..cap

\* history of a request on /rules: the id in its path, its body, the
\* response, in prev the id the request before it returned when both are
\* POST requests answered 200 with equal conditions and equal actions, in
\* listed the ids that the response to GET /rules lists
Request(op, arg, body, rsp) ==
    [op |-> op, arg |-> arg, body |-> body, http |-> rsp.http, id |-> rsp.id,
     prev |-> NoId, listed |-> {}]

\* the id the request handled last returned, when it was a POST answered 200
\* with the conditions and actions of body
SamePostBefore(body) ==
    IF /\ rlast.op = "POST"
       /\ rlast.http = 200
       /\ rlast.body.conditions = body.conditions
       /\ rlast.body.actions = body.actions
    THEN rlast.id
    ELSE NoId

\* POST /api/<apikey>/rules
PostRule(B, cap) ==
    /\ nPosts < cap
    /\ \E body \in B :
         LET rsp == createRule(rules, body)
         IN  /\ rules' = rsp.rules
             /\ bindingQueue' = rsp.queue
             /\ nPosts' = IF rsp.http = 200 THEN nPosts + 1 ELSE nPosts
             /\ issued' = IF rsp.http = 200 THEN issued \cup {rsp.id} ELSE issued
             /\ rlast' = [Request("POST", NoId, body, rsp) EXCEPT
                           !.prev = IF rsp.http = 200 THEN SamePostBefore(body) ELSE NoId]
    /\ UNCHANGED <<pipeVars, gpVars, tickVars, nodeVars>>

\* PUT /api/<apikey>/rules/<id>
PutRule(B, cap) ==
    /\ \E id \in RuleIds(cap), body \in B :
         LET rsp == updateRule(rules, id, body)
         IN  /\ rules' = rsp.rules
             /\ bindingQueue' = rsp.queue
             /\ rlast' = Request("PUT", id, body, rsp)
    /\ UNCHANGED <<nPosts, issued, pipeVars, gpVars, tickVars, nodeVars>>

\* DELETE /api/<apikey>/rules/<id>
DeleteRule(cap) ==
    /\ \E id \in RuleIds(cap) :
         LET rsp == deleteRule(rules, id)
         IN  /\ rules' = rsp.rules
             /\ bindingQueue' = rsp.queue
             /\ rlast' = Request("DELETE", id, NoBody, rsp)
    /\ UNCHANGED <<nPosts, issued, pipeVars, gpVars, tickVars, nodeVars>>

\* GET /api/<apikey>/rules/<id>
GetRule(cap) ==
    /\ \E id \in RuleIds(cap) :
         rlast' = Request("GET", id, NoBody, getRule(rules, id))
    /\ UNCHANGED <<rules, nPosts, issued, bindingQueue, pipeVars, gpVars, tickVars, nodeVars>>

\* GET /api/<apikey>/rules
GetAllRules ==
    /\ rlast' = [Request("GETALL", NoId, NoBody, Response(200, NoId, rules))
                 EXCEPT !.listed = getAllRules(rules)]
    /\ UNCHANGED <<rules, nPosts, issued, bindingQueue, pipeVars, gpVars, tickVars, nodeVars>>

\* checkConditions(conditionsList, rsp) on a list of one condition, as
\* createRule (404) and updateRule (696) call it; http is the status the
\* caller answers with
CheckConditions(C) ==
    /\ \E c \in C :
         rlast' = Request("checkConditions", NoId, Body({"conditions"}, "", "", <<c>>, << >>),
                          [http |-> IF checkConditions(<<c>>) THEN 200 ELSE 400, id |-> NoId])
    /\ UNCHANGED <<rules, nPosts, issued, bindingQueue, pipeVars, gpVars, tickVars, nodeVars>>

(***************************************************************************)
(* The reactive button-event path: gpDataIndication and                    *)
(* gpProcessButtonEvent (de_web_plugin.cpp:414-870, 912-945).  The scenes  *)
(* of the groups hold no light states and no group is in a colorloop; not  *)
(* modelled: the on state of lights and groups, their etags, gwConfigEtag, *)
(* saveCurrentRuleInDbTimer.                                               *)
(***************************************************************************)
\* the id of the green power switch in the sensor table
GpSensor == 10

\* a gpdSrcId that is the address of no sensor
UnknownSrcId == 99

\* gpdSrcId of the indications
GpSrcIds == {SensorNodes[GpSensor].ext, UnknownSrcId}

\* gpdCommandId of the indications: GpCommandIdScene0 (0x10) and
\* GpCommandIdScene1 (0x11), two of the ids gpDataIndication hands to
\* gpProcessButtonEvent (914-943)
GpCommandIds == {16, 17}

\* DeRestPluginPrivate::getSensorNodeForAddress (de_web_plugin.cpp:2538-2563);
\* no two sensors of the table have one address, so the second loop finds
\* the sensor the first loop passed over for its StateDeleted
getSensorNodeForAddress(extAddr) ==
    IF \E id \in DOMAIN SensorNodes : SensorNodes[id].ext = extAddr
    THEN CHOOSE id \in DOMAIN SensorNodes : SensorNodes[id].ext = extAddr
    ELSE NoSensor

\* conf.status() of the confirm of a running task: what apsdeDataConfirm
\* does depends on it for a TaskGetGroupIdentifiers only (370-385)
ConfirmStatuses(task) ==
    IF task.taskType = "TaskGetGroupIdentifiers"
    THEN {"ApsSuccessStatus", "ApsNoAckStatus"}
    ELSE {"ApsSuccessStatus"}

\* s->enableRead(READ_GROUP_IDENTIFIERS) after a confirm without
\* acknowledgement of a TaskGetGroupIdentifiers (372-384)
EnableReadNoAck(task, status, sa, sr) ==
    LET s == getSensorNodeForAddress(task.dst.a)
    IN  IF /\ status = "ApsNoAckStatus"
           /\ task.taskType = "TaskGetGroupIdentifiers"
           /\ s # NoSensor
           /\ sa[s]
        THEN [sr EXCEPT ![s] = @ \cup {"READ_GROUP_IDENTIFIERS"}]
        ELSE sr

\* request ids a confirm may carry: those of the running tasks, and an id
\* that is not the id of any of them (apsdeDataConfirm is called for every
\* confirm, also of requests this plugin did not issue or did not keep)
ForeignId == nOffered

ConfirmIds == {runningTasks[j].id : j \in 1..Len(runningTasks)} \cup {ForeignId}

\* the radio confirms request k: apsdeDataConfirm(conf)
ApsdeDataConfirm(R) ==
    /\ \E k \in ConfirmIds :
         IF ConfirmIndex(runningTasks, k) # 0
         THEN \E out \in RadioOutcomes(Len(tasks), R),
                 status \in ConfirmStatuses(runningTasks[ConfirmIndex(runningTasks, k)]) :
                LET p == processTasks(tasks, eraseConfirmed(runningTasks, k), inNetwork,
                                      available, sendTime, now, out)
                IN  /\ sensorRead' = EnableReadNoAck(runningTasks[ConfirmIndex(runningTasks, k)],
                                                     status, sensorAvailable, sensorRead)
                    /\ tasks' = p.tasks
                    /\ runningTasks' = p.running
                    /\ sendTime' = p.sendTime
                    /\ sentSinceTick' = CountSent(sentSinceTick + Len(p.sent))
                    /\ last' = Op("confirm", k, TRUE, p)
         ELSE /\ last' = Op("confirm", k, FALSE, NoPass)
              /\ UNCHANGED <<tasks, runningTasks, sendTime, sentSinceTick, sensorRead>>
    /\ UNCHANGED <<inNetwork, available, now, nOffered, lastId>>
    /\ UNCHANGED <<rules, nPosts, issued, bindingQueue, rlast, gpVars, tickVars>>
    /\ UNCHANGED <<deviceNodes, sensorAvailable, sensorReachable, lightAvailable, nlast, groupVars>>
    /\ UNCHANGED <<lightRead, lightAttrIter, sensorAttrIter, nAttrTicks, zlast, lifeVars>>

(***************************************************************************)
(* The deleted state of the sensors: the commissioning frame of a green    *)
(* power device (de_web_plugin.cpp:946-1076).  DELETE /sensors/<id> and    *)
(* the permit join setting are not part of these files; they are modelled  *)
(* by what the specification says of them.                                 *)
(***************************************************************************)
\* i->type() of the sensors
SensorType(id) == (CHOOSE x \in Sensors : x.id = id).type

\* the sensors both loops of getSensorNodeForFingerPrint compare: address,
\* type and the endpoint of the finger print; the finger print of a green
\* power switch is the one gpDataIndication gave it
Matching(extAddr, type) ==
    {id \in DOMAIN SensorNodes : SensorNodes[id].ext = extAddr /\ SensorType(id) = type}

\* the first element of a set of sensors in the order of the table
FirstSensor(S) == IF S = {} THEN NoSensor ELSE CHOOSE s \in S : \A t \in S : s <= t

\* DeRestPluginPrivate::getSensorNodeForFingerPrint (2597-2641): the first
\* matching sensor that is not deleted, else the first matching sensor
getSensorNodeForFingerPrint(extAddr, type, sd) ==
    IF {id \in Matching(extAddr, type) : ~sd[id]} # {}
    THEN FirstSensor({id \in Matching(extAddr, type) : ~sd[id]})
    ELSE FirstSensor(Matching(extAddr, type))

\* the radio indicates a commissioning frame of a green power device
\* (946-1076): a device that has a sensor in the table, or a device of a
\* kind that is not supported; complete is false for a payload that ends
\* before its last field
GpCommissioning ==
    /\ \E src \in GpSrcIds, complete \in BOOLEAN :
         LET sensor == getSensorNodeForFingerPrint(src, "ZGPSwitch", sensorDeleted)
         IN  /\ sensorDeleted' = IF complete /\ sensor # NoSensor /\ sensorDeleted[sensor]
                                  THEN [sensorDeleted EXCEPT ![sensor] = FALSE]
                                  ELSE sensorDeleted
             /\ last' = Op("gpCommissioning", src, complete, NoPass)
    /\ UNCHANGED <<tasks, runningTasks, inNetwork, available, sendTime, now, nOffered, lastId,
                   sentSinceTick>>
    /\ UNCHANGED <<rules, nPosts, issued, bindingQueue, rlast, gpVars, tickVars>>
    /\ UNCHANGED <<deviceNodes, sensorAvailable, sensorReachable, lightAvailable, nlast, groupVars,
                   attrVars, permitJoin, sceneVars>>

\* DELETE /sensors/<id>: the sensor stays in the table with the deleted
\* state Deleted
DeleteSensor(S) ==
    /\ \E s \in S : sensorDeleted' = [sensorDeleted EXCEPT ![s] = TRUE]
    /\ last' = Op("deleteSensor", NoArg, TRUE, NoPass)
    /\ UNCHANGED <<tasks, runningTasks, inNetwork, available, sendTime, now, nOffered, lastId,
                   sentSinceTick>>
    /\ UNCHANGED <<rules, nPosts, issued, bindingQueue, rlast, gpVars, tickVars>>
    /\ UNCHANGED <<deviceNodes, sensorAvailable, sensorReachable, lightAvailable, nlast, groupVars,
                   attrVars, permitJoin, sceneVars>>

\* the values gwPermitJoinDuration takes: 0 while the window is closed
PermitJoinDurations == {0, 60}

\* the permit join window opens or closes
SetPermitJoin ==
    /\ \E d \in PermitJoinDurations \ {permitJoin} : permitJoin' = d
    /\ last' = Op("permitJoin", NoArg, TRUE, NoPass)
    /\ UNCHANGED <<tasks, runningTasks, inNetwork, available, sendTime, now, nOffered, lastId,
                   sentSinceTick>>
    /\ UNCHANGED <<rules, nPosts, issued, bindingQueue, rlast, gpVars, tickVars>>
    /\ UNCHANGED <<deviceNodes, sensorAvailable, sensorReachable, lightAvailable, nlast, groupVars,
                   attrVars, sensorDeleted, sceneVars>>

\* SensorState after construction: no button event, lastupdated never set
NoButton == 0

\* sensor->state().setButtonevent(cmd); sensor->state().updateTime()   (446-447)
SensorStateAt(cmd, t) == [buttonevent |-> cmd, lastupdated |-> t]

\* QString::toInt(): 0 when the string is not a number
ToInt(v) ==
    IF Len(v) >= 1 /\ (\A i \in 1..Len(v) : v[i] \in Digits)
    THEN Decimal(v, Len(v))
    ELSE 0

\* ok and ok2 before the conditions of a rule are looked at (465-466)
NoneMet == [ok |-> FALSE, ok2 |-> FALSE]

RECURSIVE ScanConditions(_, _, _, _, _, _)
\* the loop over the conditions of a rule from position i on (470-513): id
\* is the first number of the address, event is "buttonevent" when the
\* address holds that word and "lastupdated" otherwise, the operator is
\* read and not used; every condition on the sensor overwrites ok or ok2
ScanConditions(conditions, i, met, sensorId, state, lastUpdatedOld) ==
    IF i > Len(conditions) THEN met
    ELSE
      LET c == conditions[i]
          event == IF c.address.attr = "/state/buttonevent" THEN "buttonevent" ELSE "lastupdated"
          met2 == IF c.address.sensor # sensorId THEN met
                  ELSE IF event = "buttonevent"
                       THEN [met EXCEPT !.ok = (ToInt(c.value) = state.buttonevent)]
                  ELSE [met EXCEPT !.ok2 = (lastUpdatedOld # state.lastupdated)]
      IN  ScanConditions(conditions, i + 1, met2, sensorId, state, lastUpdatedOld)

\* if (ok && ok2)   (524)
RuleMeets(rule, sensorId, state, lastUpdatedOld) ==
    LET met == ScanConditions(rule.conditions, 1, NoneMet, sensorId, state, lastUpdatedOld)
    IN  met.ok /\ met.ok2

\* the queues while gpProcessButtonEvent runs: tasks, runningTasks, the send
\* times of the groups, the next request id and, as history, the TaskItems
\* offered to addTask with the return value of addTask and the number of
\* radio submissions
Queues(ts, rs, stime, n) ==
    [tasks |-> ts, running |-> rs, sendTime |-> stime, n |-> n, offered |-> << >>, sent |-> 0]

\* asdu and endpoints of a recall scene request to a group (4098-4126)
SceneKey == 2

\* asdu and endpoints of an on/off request to a group
OnOffKey == 1

\* a handler offers a TaskItem of type and destination dst to addTask
Offer(q, net, type, dst, key, faf, scene) ==
    LET task == TaskItem(q.n, type, dst, key, FALSE, faf, q.n)
        r == addTask(q.tasks, net, task)
    IN  [ret |-> r.ret,
         q |-> [q EXCEPT !.tasks = r.tasks, !.n = @ + 1,
                         !.offered = Append(@, [task |-> task, ret |-> r.ret, scene |-> scene])]]

\* DeRestPluginPrivate::callScene (de_web_plugin.cpp:4088-4134)
callScene(q, net, group, sceneId) ==
    Offer(q, net, "TaskCallScene", GroupAddr(group), SceneKey, FALSE, sceneId)

\* addTaskSetOnOff(task, cmd, 0) on a task in FireAndForgetState (689-720)
addTaskSetOnOff(q, net, group) ==
    Offer(q, net, "TaskSetOnOff", GroupAddr(group), OnOffKey, TRUE, NoScene)

\* processTasks() at the end of a recall (647)
ProcessQueues(q, net, avail, t, out) ==
    LET p == processTasks(q.tasks, q.running, net, avail, q.sendTime, t, out)
    IN  [q EXCEPT !.tasks = p.tasks, !.running = p.running, !.sendTime = p.sendTime,
                  !.sent = @ + Len(p.sent)]

\* address.split("/").size()
SplitSize(address) == IF address.scene = NoScene THEN 4 ELSE 5

\* one action of a rule that meets the event (528-770)
RunAction(q, a, net, avail, t, out) ==
    IF a.address.res = "scenes" \/ a.address.path = "scenes"
    THEN IF SplitSize(a.address) < 5 THEN q
         ELSE IF a.address.id \in Groups
              THEN LET c == callScene(q, net, a.address.id, a.address.scene)
                   IN  IF c.ret THEN ProcessQueues(c.q, net, avail, t, out) ELSE c.q
         ELSE q
    ELSE IF a.address.res = "lights" THEN q
    ELSE IF a.address.res = "groups"
         THEN IF a.address.id \notin Groups THEN q
              ELSE IF BodyContains(a.keys, "on") /\ (a.values \cap {"false", "true"}) # {}
                   THEN addTaskSetOnOff(q, net, a.address.id).q
              ELSE q
    ELSE q

RECURSIVE RunActions(_, _, _, _, _, _, _)
\* the loop over the actions of a rule from position i on (526-858)
RunActions(q, actions, i, net, avail, t, out) ==
    IF i > Len(actions) THEN q
    ELSE RunActions(RunAction(q, actions[i], net, avail, t, out), actions, i + 1, net, avail, t, out)

\* setLastTriggered(now), setTimesTriggered(timesTriggered + 1)   (860-865)
Triggered(rule, t) == [rule EXCEPT !.lastTriggered = t, !.timesTriggered = @ + 1]

RECURSIVE ScanRules(_, _, _, _, _, _, _, _, _)
\* the loop over rules from position k on (459-868); the result is the
\* rules and the queues it leaves and, as history, the ids of the rules
\* whose actions it ran
ScanRules(rs, k, q, sensorId, state, lastUpdatedOld, net, avail, out) ==
    IF k > Len(rs) THEN [rules |-> rs, q |-> q, ran |-> {}]
    ELSE IF rs[k].state # "StateDeleted"
            /\ RuleMeets(rs[k], sensorId, state, lastUpdatedOld)
         THEN LET q2 == RunActions(q, rs[k].actions, 1, net, avail, state.lastupdated, out)
                  rest == ScanRules([rs EXCEPT ![k] = Triggered(@, state.lastupdated)], k + 1, q2,
                                    sensorId, state, lastUpdatedOld, net, avail, out)
              IN  [rest EXCEPT !.ran = @ \cup {rs[k].id}]
    ELSE ScanRules(rs, k + 1, q, sensorId, state, lastUpdatedOld, net, avail, out)

\* history of an indication: its source and command, the sensor it was
\* mapped to, lastupdated of the sensor before the indication, the rules
\* whose actions ran, the TaskItems offered to addTask
Indication(src, cmd, sensor, old, ran, offered) ==
    [src |-> src, cmd |-> cmd, sensor |-> sensor, lastUpdatedOld |-> old,
     ran |-> ran, offered |-> offered]

NoIndication == Indication(0, NoButton, NoSensor, NoTime, {}, << >>)

\* the radio indicates a green power frame with a button command id:
\* gpDataIndication(ind), gpProcessButtonEvent(ind)
GpDataIndication(cap, R) ==
    /\ nEvents < cap
    /\ nEvents' = nEvents + 1
    /\ \E src \in GpSrcIds, cmd \in GpCommandIds, out \in RadioOutcomes(MaxTasks, R) :
         LET sensor == getSensorNodeForAddress(src)
             state == SensorStateAt(cmd, now)
             r == ScanRules(rules, 1, Queues(tasks, runningTasks, sendTime, nOffered),
                            sensor, state, sensorState.lastupdated, inNetwork, available, out)
         IN  IF sensor = NoSensor \/ sensorDeleted[sensor]
             THEN /\ glast' = Indication(src, cmd, NoSensor, NoTime, {}, << >>)
                  /\ UNCHANGED <<sensorState, rules, tasks, runningTasks, sendTime, nOffered,
                                 sentSinceTick, last>>
             ELSE /\ sensorState' = state
                  /\ rules' = r.rules
                  /\ tasks' = r.q.tasks
                  /\ runningTasks' = r.q.running
                  /\ sendTime' = r.q.sendTime
                  /\ nOffered' = r.q.n
                  /\ sentSinceTick' = CountSent(sentSinceTick + r.q.sent)
                  /\ last' = Op("gpDataIndication", cmd, TRUE, NoPass)
                  /\ glast' = Indication(src, cmd, sensor, sensorState.lastupdated, r.ran, r.q.offered)
    /\ UNCHANGED <<inNetwork, available, now, lastId, nPosts, issued, bindingQueue, rlast, tickVars, nodeVars>>

\* the sensor table after construction: the switch has indicated nothing
InitSensors ==
    /\ sensorState = SensorStateAt(NoButton, NoTime)
    /\ nEvents = 0
    /\ glast = NoIndication

(***************************************************************************)
(* The periodic path: verifyRuleBindingsTimerFired and triggerRuleIfNeeded *)
(* (rest_rules.cpp:1277-1495).  The handlers of /groups and /lights that   *)
(* replay an action are not part of these files; they are modelled by what *)
(* the specification says of them: a request on a resource the handler     *)
(* knows is handled and enqueues its command, any other request is         *)
(* answered REQ_NOT_HANDLED.                                               *)
(***************************************************************************)
\* the id of the illuminance sensor in the sensor table
LightSensor == 4

\* sensor->state().lux() of the illuminance sensor
LuxValues == {150, 250}

\* the cached illuminance value: lux, fresh when val.timestamp is valid and
\* not older than MAX_RULE_ILLUMINANCE_VALUE_AGE_MS, readRequested when
\* val.timestampLastReadRequest is valid and younger than half that age
LuxState(lux, fresh, readRequested) ==
    [lux |-> lux, fresh |-> fresh, readRequested |-> readRequested]

\* asdu and endpoints of a read attributes request
ReadKey == 3

\* DeRestPluginPrivate::taskCountForAddress (de_web_plugin.cpp:873-907)
taskCountForAddress(q, address) ==
    Cardinality({j \in 1..Len(q.tasks) : q.tasks[j].dst = address})
    + Cardinality({j \in 1..Len(q.running) : q.running[j].dst = address})

\* DeRestPluginPrivate::readAttributes (de_web_plugin.cpp:3346-3406)
readAttributesOf(q, net, isAvailable, ext) ==
    IF ~isAvailable THEN [ret |-> FALSE, q |-> q]
    ELSE IF taskCountForAddress(q, ExtAddr(ext)) > 0
         THEN [ret |-> FALSE, q |-> q]
    ELSE Offer(q, net, "TaskReadAttributes", ExtAddr(ext), ReadKey, FALSE, NoScene)

\* readAttributes(sensorNode, ...)
readAttributes(q, net, sensorId) ==
    readAttributesOf(q, net, sensorAvailable[sensorId], SensorNodes[sensorId].ext)

(***************************************************************************)
(* The attribute timer: checkZclAttributeTimerFired and the two            *)
(* processZclAttributes (de_web_plugin.cpp:2890-3337, 6428-6479).          *)
(***************************************************************************)
\* the scenes of the groups of the group table (Group::scenes)
GroupScenes == [g \in DOMAIN GroupTable |-> IF g = 1 THEN <<1, 2>> ELSE << >>]

\* readOnOff, readLevel and readColor of the lights, from profile and device
\* id of haEndpoint() (2923-2975): light 1 is a colour light, light 2 a
\* dimmable light, light 3 a device of another kind
DeviceReads(l) ==
    IF l = 1 THEN {"READ_ON_OFF", "READ_LEVEL", "READ_COLOR"}
    ELSE IF l = 2 THEN {"READ_ON_OFF", "READ_LEVEL"}
    ELSE {}

\* the sensors whose model id or manufacturer is on the whitelist of the
\* binding table read (3217-3225)
BindingTableSensors == {1}

\* modelId() == "RWL021", or the commissioning cluster is an in cluster of
\* the finger print (3279-3282)
GroupIdentifierSensors == {1}

\* sensorNode->config().duration()
OccupancyDuration(s) == IF s = 3 THEN 60 ELSE 70000

\* the state of one call of processZclAttributes: the queues, the read
\* flags of the lights or of the sensors, the counter processed
Attr(q, rd, processed) == [q |-> q, rd |-> rd, processed |-> processed]

\* the member functions that build one request and return addTask(task):
\* readGroupMembership (3565-3609), readSceneMembership (3844-3882),
\* readSceneAttributes (3518-3558), getGroupIdentifiers (3413-3455),
\* writeAttribute (3464-3510); isAvailable is that of the light or sensor
Request1(q, net, isAvailable, type, ext) ==
    IF ~isAvailable THEN [ret |-> FALSE, q |-> q]
    ELSE Offer(q, net, type, ExtAddr(ext), ReadKey, FALSE, NoScene)

\* if (guard && mustRead(flag)) { if (readAttributes(...)) { clearRead(flag);
\* processed++; } } for light l (2996-3073)
LightRead(z, net, l, flag, guard) ==
    IF ~(guard /\ flag \in z.rd[l]) THEN z
    ELSE LET r == readAttributesOf(z.q, net, lightAvailable[l], LightNodes[l].ext)
         IN  IF r.ret THEN Attr(r.q, [z.rd EXCEPT ![l] = @ \ {flag}], z.processed + 1)
             ELSE Attr(r.q, z.rd, z.processed)

\* the binding table is read once per node: the flag is cleared on every
\* light of the address (2977-2994); bound is the result of readBindingTable
LightBindingTable(z, l, bound) ==
    IF "READ_BINDING_TABLE" \in z.rd[l] /\ bound
    THEN Attr(z.q,
              [k \in DOMAIN LightNodes |->
                  IF LightNodes[k].ext = LightNodes[l].ext
                  THEN z.rd[k] \ {"READ_BINDING_TABLE"} ELSE z.rd[k]],
              z.processed + 1)
    ELSE z

\* if ((processed < 2) && mustRead(READ_GROUPS)) (3075-3083)
LightReadGroups(z, net, l) ==
    IF ~(z.processed < 2 /\ "READ_GROUPS" \in z.rd[l]) THEN z
    ELSE LET r == Request1(z.q, net, lightAvailable[l], "TaskGetGroupMembership", LightNodes[l].ext)
         IN  IF r.ret THEN Attr(r.q, [z.rd EXCEPT ![l] = @ \ {"READ_GROUPS"}], z.processed + 1)
             ELSE Attr(r.q, z.rd, z.processed)

\* group && group->state() != StateDeleted && group->state() != StateDeleteFromDB
LiveGroup(g) ==
    g \in DOMAIN GroupTable /\ GroupTable[g].state \notin {"StateDeleted", "StateDeleteFromDB"}

RECURSIVE SceneMembershipLoop(_, _, _, _, _)
\* the loop over the groups of the light from position i on (3092-3111): the
\* queues and the number of requests addTask accepted
SceneMembershipLoop(q, net, l, gs, i) ==
    IF i > Len(gs) THEN [q |-> q, rd |-> 0]
    ELSE IF LiveGroup(gs[i].id)
         THEN LET r == Request1(q, net, lightAvailable[l], "TaskGetSceneMembership", LightNodes[l].ext)
                  rest == SceneMembershipLoop(r.q, net, l, gs, i + 1)
              IN  [q |-> rest.q, rd |-> rest.rd + (IF r.ret THEN 1 ELSE 0)]
    ELSE SceneMembershipLoop(q, net, l, gs, i + 1)

\* if ((processed < 2) && mustRead(READ_SCENES) && !groups().empty()) (3085-3125)
LightReadScenes(z, net, l, gs) ==
    IF ~(z.processed < 2 /\ "READ_SCENES" \in z.rd[l] /\ gs # << >>) THEN z
    ELSE LET r == SceneMembershipLoop(z.q, net, l, gs, 1)
         IN  Attr(r.q,
                  IF r.rd > 0 THEN [z.rd EXCEPT ![l] = @ \ {"READ_SCENES"}] ELSE z.rd,
                  z.processed + r.rd)

RECURSIVE SceneDetailsLoop(_, _, _, _, _, _)
\* the loops over the groups of the light and over the scenes of each group
\* from group i, scene j on (3132-3157)
SceneDetailsLoop(q, net, l, gs, i, j) ==
    IF i > Len(gs) THEN [q |-> q, rd |-> 0]
    ELSE IF ~LiveGroup(gs[i].id) \/ j > Len(GroupScenes[gs[i].id])
         THEN SceneDetailsLoop(q, net, l, gs, i + 1, 1)
    ELSE LET r == Request1(q, net, lightAvailable[l], "TaskViewScene", LightNodes[l].ext)
             rest == SceneDetailsLoop(r.q, net, l, gs, i, j + 1)
         IN  [q |-> rest.q, rd |-> rest.rd + (IF r.ret THEN 1 ELSE 0)]

\* if ((processed < 2) && mustRead(READ_SCENE_DETAILS)) (3127-3171)
LightReadSceneDetails(z, net, l, gs) ==
    IF ~(z.processed < 2 /\ "READ_SCENE_DETAILS" \in z.rd[l]) THEN z
    ELSE LET r == SceneDetailsLoop(z.q, net, l, gs, 1, 1)
         IN  Attr(r.q,
                  IF gs = << >> \/ r.rd > 0
                  THEN [z.rd EXCEPT ![l] = @ \ {"READ_SCENE_DETAILS"}] ELSE z.rd,
                  z.processed + r.rd)

\* the only element of a set of one element
The(S) == CHOOSE x \in S : TRUE

\* the i-th if block of processZclAttributes(LightNode*) in the order of the
\* code (2977-3171), on the state z the blocks before it left
LightBlock(z, net, l, gs, bound, i) ==
    CASE i = 1 -> LightBindingTable(z, l, bound)
      [] i = 2 -> LightRead(z, net, l, "READ_VENDOR_NAME", TRUE)
      [] i = 3 -> LightRead(z, net, l, "READ_MODEL_ID", z.processed < 2)
      [] i = 4 -> LightRead(z, net, l, "READ_SWBUILD_ID", z.processed < 2)
      [] i = 5 -> LightRead(z, net, l, "READ_ON_OFF",
                            z.processed < 2 /\ "READ_ON_OFF" \in DeviceReads(l))
      [] i = 6 -> LightRead(z, net, l, "READ_LEVEL",
                            z.processed < 2 /\ "READ_LEVEL" \in DeviceReads(l))
      [] i = 7 -> LightRead(z, net, l, "READ_COLOR",
                            z.processed < 2 /\ "READ_COLOR" \in DeviceReads(l))
      [] i = 8 -> LightReadGroups(z, net, l)
      [] i = 9 -> LightReadScenes(z, net, l, gs)
      [] i = 10 -> LightReadSceneDetails(z, net, l, gs)

RECURSIVE LightBlocks(_, _, _, _, _, _)
\* the if blocks from the i-th on, one after the other
LightBlocks(z, net, l, gs, bound, i) ==
    IF i > 10 THEN z
    ELSE The({LightBlocks(z1, net, l, gs, bound, i + 1) :
                 z1 \in {LightBlock(z, net, l, gs, bound, i)}})

\* DeRestPluginPrivate::processZclAttributes(LightNode*) (2890-3174) for
\* light l with the queues q and the read flags rd of the lights; ready
\* says that nextReadTime() has passed and that auto polling is active,
\* bound is the result of readBindingTable
processZclAttributesLight(q, rd, net, l, gs, ready, bound) ==
    IF ~ready \/ ~lightAvailable[l] THEN Attr(q, rd, 0)
    ELSE LightBlocks(Attr(q, rd, 0), net, l, gs, bound, 1)

\* if (mustRead(flag)) { if (readAttributes(...)) { clearRead(flag);
\* processed++; } } for sensor s (3246-3277, 3297-3307)
SensorRead(z, net, s, flag) ==
    IF flag \notin z.rd[s] THEN z
    ELSE LET r == readAttributes(z.q, net, s)
         IN  IF r.ret THEN Attr(r.q, [z.rd EXCEPT ![s] = @ \ {flag}], z.processed + 1)
             ELSE Attr(r.q, z.rd, z.processed)

\* the binding table of a sensor (3213-3244): read for the sensors of the
\* whitelist, the flag is cleared on every sensor of the address
SensorBindingTable(z, s, bound) ==
    IF "READ_BINDING_TABLE" \notin z.rd[s] THEN z
    ELSE IF s \notin BindingTableSensors
         THEN Attr(z.q, [z.rd EXCEPT ![s] = @ \ {"READ_BINDING_TABLE"}], z.processed)
    ELSE IF bound
         THEN Attr(z.q,
                   [k \in DOMAIN SensorNodes |->
                       IF SensorNodes[k].ext = SensorNodes[s].ext
                       THEN z.rd[k] \ {"READ_BINDING_TABLE"} ELSE z.rd[k]],
                   z.processed + 1)
    ELSE z

\* if (mustRead(READ_GROUP_IDENTIFIERS)) (3279-3295)
SensorGroupIdentifiers(z, net, s) ==
    IF "READ_GROUP_IDENTIFIERS" \notin z.rd[s] THEN z
    ELSE IF s \notin GroupIdentifierSensors
         THEN Attr(z.q, [z.rd EXCEPT ![s] = @ \ {"READ_GROUP_IDENTIFIERS"}], z.processed)
    ELSE LET r == Request1(z.q, net, sensorAvailable[s], "TaskGetGroupIdentifiers", SensorNodes[s].ext)
         IN  IF r.ret
             THEN Attr(r.q, [z.rd EXCEPT ![s] = @ \ {"READ_GROUP_IDENTIFIERS"}], z.processed + 1)
             ELSE Attr(r.q, z.rd, z.processed)

\* if (mustRead(WRITE_OCCUPANCY_CONFIG)) (3309-3328)
SensorWriteOccupancy(z, net, s) ==
    IF "WRITE_OCCUPANCY_CONFIG" \notin z.rd[s] THEN z
    ELSE IF ~(OccupancyDuration(s) >= 0 /\ OccupancyDuration(s) <= 65535)
         THEN Attr(z.q, [z.rd EXCEPT ![s] = @ \ {"WRITE_OCCUPANCY_CONFIG"}], z.processed)
    ELSE LET r == Request1(z.q, net, sensorAvailable[s], "TaskWriteAttribute", SensorNodes[s].ext)
         IN  IF r.ret
             THEN Attr(r.q, [z.rd EXCEPT ![s] = @ \ {"WRITE_OCCUPANCY_CONFIG"}], z.processed + 1)
             ELSE Attr(r.q, z.rd, z.processed)

\* the i-th if block of processZclAttributes(Sensor*) in the order of the
\* code (3213-3328), on the state z the blocks before it left
SensorBlock(z, net, s, bound, i) ==
    CASE i = 1 -> SensorBindingTable(z, s, bound)
      [] i = 2 -> SensorRead(z, net, s, "READ_VENDOR_NAME")
      [] i = 3 -> SensorRead(z, net, s, "READ_MODEL_ID")
      [] i = 4 -> SensorRead(z, net, s, "READ_SWBUILD_ID")
      [] i = 5 -> SensorGroupIdentifiers(z, net, s)
      [] i = 6 -> SensorRead(z, net, s, "READ_OCCUPANCY_CONFIG")
      [] i = 7 -> SensorWriteOccupancy(z, net, s)

RECURSIVE SensorBlocks(_, _, _, _, _)
\* the if blocks from the i-th on, one after the other
SensorBlocks(z, net, s, bound, i) ==
    IF i > 7 THEN z
    ELSE The({SensorBlocks(z1, net, s, bound, i + 1) :
                 z1 \in {SensorBlock(z, net, s, bound, i)}})

\* DeRestPluginPrivate::processZclAttributes(Sensor*) (3179-3337) for
\* sensor s; ready says that nextReadTime() has passed and that the node has
\* simple descriptors
processZclAttributesSensor(q, rd, net, s, ready, bound) ==
    IF ~ready \/ ~sensorAvailable[s] THEN Attr(q, rd, 0)
    ELSE SensorBlocks(Attr(q, rd, 0), net, s, bound, 1)

RECURSIVE LightLoop(_, _, _, _, _, _)
\* while (lightAttrIter < nodes.size()) (6444-6457): the state after the
\* call that returned true, at is its light (0 when no call did)
LightLoop(q, rd, net, iter, ready, bound) ==
    IF iter >= NumLights THEN [z |-> Attr(q, rd, 0), iter |-> iter, at |-> 0]
    ELSE The({IF z.processed > 0 THEN [z |-> z, iter |-> iter + 1, at |-> iter + 1]
              ELSE LightLoop(z.q, z.rd, net, iter + 1, ready, bound) :
                 z \in {processZclAttributesLight(q, rd, net, iter + 1, lightGroups[iter + 1],
                                                  (iter + 1) \in ready, bound)}})

\* sensors.size()
NumSensors == Cardinality(DOMAIN SensorNodes)

RECURSIVE SensorLoop(_, _, _, _, _, _)
\* while (sensorAttrIter < sensors.size()) (6464-6477)
SensorLoop(q, rd, net, iter, ready, bound) ==
    IF iter >= NumSensors THEN [z |-> Attr(q, rd, 0), iter |-> iter, at |-> 0]
    ELSE The({IF z.processed > 0 THEN [z |-> z, iter |-> iter + 1, at |-> iter + 1]
              ELSE SensorLoop(z.q, z.rd, net, iter + 1, ready, bound) :
                 z \in {processZclAttributesSensor(q, rd, net, iter + 1, (iter + 1) \in ready,
                                                   bound)}})

\* the requests of the list offered that addTask accepted
Accepted(offered) == Cardinality({i \in 1..Len(offered) : offered[i].ret})

\* the attribute timer fires: checkZclAttributeTimerFired (6428-6479).
\* ready holds the lights and the sensors whose calls do not return before
\* the first read, bound is the result of readBindingTable
CheckZclAttributeTimerFired(R, Ready, cap) ==
    /\ nAttrTicks < cap
    /\ nAttrTicks' = nAttrTicks + 1
    /\ \E ready \in Ready, bound \in BOOLEAN :
         \E L \in {LightLoop(Queues(tasks, runningTasks, sendTime, nOffered), lightRead,
                               inNetwork,
                               IF lightAttrIter >= NumLights THEN 0 ELSE lightAttrIter,
                               ready.lights, bound)} :
             \E out1 \in RadioOutcomes(Len(L.z.q.tasks), R) :
               \E q1 \in {IF L.at # 0
                          THEN ProcessQueues(L.z.q, inNetwork, available, now, out1)
                          ELSE L.z.q} :
               \E S \in {SensorLoop([q1 EXCEPT !.offered = << >>], sensorRead, inNetwork,
                                    IF sensorAttrIter >= NumSensors THEN 0 ELSE sensorAttrIter,
                                    ready.sensors, bound)} :
                   \E out2 \in RadioOutcomes(Len(S.z.q.tasks), R) :
                     \E q2 \in {IF S.at # 0
                                THEN ProcessQueues(S.z.q, inNetwork, available, now, out2)
                                ELSE S.z.q} :
                         /\ tasks' = q2.tasks
                         /\ runningTasks' = q2.running
                         /\ sendTime' = q2.sendTime
                         /\ nOffered' = q2.n
                         /\ lastId' = IF q2.n > nOffered THEN q2.n - 1 ELSE lastId
                         /\ sentSinceTick' = CountSent(sentSinceTick + q2.sent)
                         /\ lightRead' = L.z.rd
                         /\ sensorRead' = S.z.rd
                         /\ lightAttrIter' = L.iter
                         /\ sensorAttrIter' = S.iter
                         /\ zlast' = AttrTick(L.at, L.z.processed, Accepted(L.z.q.offered),
                                              S.at, S.z.processed, Accepted(S.z.q.offered))
    /\ last' = Op("checkZclAttributeTimer", NoArg, TRUE, NoPass)
    /\ UNCHANGED <<inNetwork, available, now>>
    /\ UNCHANGED <<rules, nPosts, issued, bindingQueue, rlast, gpVars, tickVars>>
    /\ UNCHANGED <<deviceNodes, sensorAvailable, sensorReachable, lightAvailable, nlast, groupVars,
                   lifeVars>>


(***************************************************************************)
(* handleSceneClusterIndication (de_web_plugin.cpp:4830-5040).  addScenes  *)
(* and removeScenes of every GroupInfo are empty, the scenes a response    *)
(* names are scenes the group has, so foundScene adds nothing.             *)
(***************************************************************************)
\* DeRestPluginPrivate::getGroupForId(uint16_t) (2681-2695): a null pointer
\* for an address that no group of the table has
NullGroup == -1

getGroupForId(id) == IF id \in DOMAIN GroupTable THEN id ELSE NullGroup

\* DeRestPluginPrivate::getGroupInfo (2776-2795): a null pointer for a null
\* light node and for an id that no GroupInfo of the light has
getGroupInfo(l, id) == IF l # 0 /\ HasGroupInfo(lightGroups[l], id) THEN id ELSE NullGroup

\* the scene fields and read flags of the lights, and whether the process
\* goes on
SceneFields(capacity, count, rd, ended) ==
    [capacity |-> capacity, count |-> count, rd |-> rd, crashed |-> ended]

\* the body of if (group && lightNode && groupInfo) (4862-4884) for light l
\* and the GroupInfo of group g
SceneMembershipFound(z, l, g, rsp) ==
    SceneFields([z.capacity EXCEPT ![l] = rsp.capacity],
                [z.count EXCEPT ![l][g] = rsp.count],
                [z.rd EXCEPT ![l] = @ \cup {"READ_SCENE_DETAILS"}],
                z.crashed)

\* what a build does with group->address() on a null pointer (4858): the
\* read of the address faults; or it gives some value, and the test of
\* group that follows fails; or the compiler has dropped that test, group
\* having been used before it
NullGroupOutcomes == {"fault", "skipped", "entered"}

\* the GetSceneMembership response with status SUCCESS (4854-4887); outcome
\* and address say what group->address() does and gives for a null pointer
handleGetSceneMembership(z, l, rsp, outcome, address) ==
    LET group == getGroupForId(rsp.groupId)
    IN  IF group = NullGroup
        THEN IF outcome = "fault" THEN [z EXCEPT !.crashed = TRUE]
             ELSE IF outcome = "entered" /\ l # 0 /\ getGroupInfo(l, address) # NullGroup
                  THEN SceneMembershipFound(z, l, address, rsp)
             ELSE z
        ELSE IF l # 0 /\ getGroupInfo(l, group) # NullGroup
             THEN SceneMembershipFound(z, l, group, rsp)
        ELSE z

\* std::find(v.begin(), v.end(), sceneId) != v.end() on addScenes (4911-4914)
\* and on removeScenes (4997-5000)
ScenePending(l, g, sceneId) == FALSE

\* Scene *getSceneForId(gid, sid) (2699-2715) reads group->scenes of the
\* result of getGroupForId without a test
getSceneForIdFaults(gid) == getGroupForId(gid) = NullGroup

\* the StoreScene response (4889-4979) and the RemoveScene response
\* (4980-5040): nothing is done unless the scene is pending in the GroupInfo
handleStoreScene(z, l, rsp) ==
    IF l = 0 \/ getGroupInfo(l, rsp.groupId) = NullGroup THEN z
    ELSE IF ~ScenePending(l, rsp.groupId, rsp.scenes[1]) THEN z
    ELSE IF rsp.status = 0 /\ getSceneForIdFaults(rsp.groupId) THEN [z EXCEPT !.crashed = TRUE]
    ELSE z

handleSceneClusterIndication(z, l, rsp, outcome, address) ==
    IF rsp.cmd = "GetSceneMembershipResponse"
    THEN IF rsp.status = 0 THEN handleGetSceneMembership(z, l, rsp, outcome, address) ELSE z
    ELSE handleStoreScene(z, l, rsp)

\* the radio indicates a response of the scene cluster
SceneClusterIndication(Sources, Responses, cap) ==
    /\ ~crashed
    /\ nSceneRsp < cap
    /\ nSceneRsp' = nSceneRsp + 1
    /\ \E src \in Sources, rsp \in Responses, outcome \in NullGroupOutcomes,
          address \in DOMAIN GroupTable :
         LET l == getLightNodeForAddress(src[1], src[2])
             z == handleSceneClusterIndication(
                      SceneFields(sceneCapacity, sceneCount, lightRead, crashed),
                      l, rsp, outcome, address)
         IN  /\ sceneCapacity' = z.capacity
             /\ sceneCount' = z.count
             /\ lightRead' = z.rd
             /\ crashed' = z.crashed
             /\ slast' = SceneEvent(l, rsp, getGroupForId(rsp.groupId) # NullGroup)
    /\ last' = Op("sceneClusterIndication", NoArg, TRUE, NoPass)
    /\ UNCHANGED <<tasks, runningTasks, inNetwork, available, sendTime, now, nOffered, lastId,
                   sentSinceTick>>
    /\ UNCHANGED <<rules, nPosts, issued, bindingQueue, rlast, gpVars, tickVars>>
    /\ UNCHANGED <<deviceNodes, sensorAvailable, sensorReachable, lightAvailable, nlast, groupVars>>
    /\ UNCHANGED <<sensorRead, lightAttrIter, sensorAttrIter, nAttrTicks, zlast,
                   sensorDeleted, permitJoin>>

\* a loop body that compares the cached value whatever its age
ConditionStepIgnoresAge(c, lux) ==
    IF getSensorNodeForId(c.address.sensor) = NoSensor THEN "return"
    ELSE IF ~sensorAvailable[c.address.sensor] THEN "return"
    ELSE IF c.address.attr = "/state/buttonevent" THEN "return"
    ELSE IF c.address.attr = "/state/illuminance"
         THEN IF c.operator = "lt"
              THEN IF lux.lux >= ToInt(c.value) THEN "return" ELSE "next"
              ELSE IF c.operator = "gt"
                   THEN IF lux.lux <= ToInt(c.value) THEN "return" ELSE "next"
              ELSE "return"
    ELSE "return"

\* what triggerRuleIfNeeded does with one condition (1317-1397): "next"
\* goes on with the next condition, "read" forces a read of the stale
\* value and returns, "return" returns
ConditionStep(c, lux) ==
    IF getSensorNodeForId(c.address.sensor) = NoSensor THEN "return"
    ELSE IF ~sensorAvailable[c.address.sensor] THEN "return"
    ELSE IF c.address.attr = "/state/buttonevent" THEN "return"
    ELSE IF c.address.attr = "/state/illuminance"
         THEN IF ~lux.fresh
              THEN IF lux.readRequested THEN "return" ELSE "read"
              ELSE IF c.operator = "lt"
                   THEN IF lux.lux >= ToInt(c.value) THEN "return" ELSE "next"
              ELSE IF c.operator = "gt"
                   THEN IF lux.lux <= ToInt(c.value) THEN "return" ELSE "next"
              ELSE "return"
    ELSE "return"

RECURSIVE ConditionsStep(_, _, _)
\* the loop over the conditions from position i on (1311-1398): "met" when
\* it runs to its end, with the position of the condition that ended it
ConditionsStep(conditions, i, lux) ==
    IF i > Len(conditions) THEN [step |-> "met", at |-> 0]
    ELSE IF ConditionStep(conditions[i], lux) = "next"
         THEN ConditionsStep(conditions, i + 1, lux)
    ELSE [step |-> ConditionStep(conditions[i], lux), at |-> i]

\* handleGroupsApi(req, rsp): PUT /groups/<id>/action is handled
GroupsApiHandles(a) == a.address.path = "action"

\* handleLightsApi(req, rsp): PUT /lights/<id>/state is handled
LightsApiHandles(a) == a.address.path = "state"

\* the command a handled request enqueues: on/off for a body with the key
\* on, sent to the group or to the light when there is one
Replay(q, net, a) ==
    IF ~BodyContains(a.keys, "on") THEN q
    ELSE IF a.address.res = "groups" /\ a.address.id \in Groups
         THEN Offer(q, net, "TaskSetOnOff", GroupAddr(a.address.id), OnOffKey, FALSE, NoScene).q
    ELSE IF a.address.res = "lights" /\ a.address.id \in DOMAIN LightNodes
         THEN Offer(q, net, "TaskSetOnOff", ExtAddr(LightNodes[a.address.id].ext), OnOffKey,
                    FALSE, NoScene).q
    ELSE q

\* path.size() of address.split('/', SkipEmptyParts)
PathSize(address) == IF address.scene = NoScene THEN 3 ELSE 4

RECURSIVE ReplayActions(_, _, _, _, _)
\* the loop over the actions from position i on (1405-1446); done when it
\* runs to its end, replayed: the positions of the actions a handler handled
ReplayActions(q, actions, i, net, replayed) ==
    IF i > Len(actions) THEN [done |-> TRUE, q |-> q, replayed |-> replayed]
    ELSE
      LET a == actions[i]
          stop == [done |-> FALSE, q |-> q, replayed |-> replayed]
      IN  IF a.method # "PUT" THEN stop
          ELSE IF PathSize(a.address) < 3 THEN stop
          ELSE IF a.address.res = "groups"
               THEN IF ~GroupsApiHandles(a) THEN stop
                    ELSE ReplayActions(Replay(q, net, a), actions, i + 1, net, replayed \cup {i})
          ELSE IF a.address.res = "lights"
               THEN IF ~LightsApiHandles(a) THEN stop
                    ELSE ReplayActions(Replay(q, net, a), actions, i + 1, net, replayed \cup {i})
          ELSE stop

\* the result of triggerRuleIfNeeded: the rule, the queues, the cached
\* value and, as history, the positions of the actions that were replayed
Tick(rule, q, lux, replayed) == [rule |-> rule, q |-> q, lux |-> lux, replayed |-> replayed]

\* DeRestPluginPrivate::triggerRuleIfNeeded (1277-1453)
triggerRuleIfNeeded(rule, q, lux, net, t) ==
    IF ~net THEN Tick(rule, q, lux, {})
    ELSE IF ~(rule.state = "StateNormal" /\ rule.status = "enabled") THEN Tick(rule, q, lux, {})
    ELSE IF rule.triggerPeriodic <= 0 THEN Tick(rule, q, lux, {})
    ELSE IF rule.lastTriggered # NoTime /\ t - rule.lastTriggered < rule.triggerPeriodic
         THEN Tick(rule, q, lux, {})
    ELSE
      LET c == ConditionsStep(rule.conditions, 1, lux)
          read == readAttributes(q, net, rule.conditions[c.at].address.sensor)
          p == ReplayActions(q, rule.actions, 1, net, {})
      IN  IF c.step = "return" THEN Tick(rule, q, lux, {})
          ELSE IF c.step = "read"
               THEN Tick(rule, read.q, [lux EXCEPT !.readRequested = read.ret], {})
          ELSE IF p.done /\ p.replayed # {}
               THEN Tick(Triggered(rule, t), p.q, lux, p.replayed)
          ELSE Tick(rule, p.q, lux, p.replayed)

\* history of a tick: the id of the rule it looked at, the positions of the
\* actions it replayed, the TaskItems it offered to addTask, the BindingTasks
\* it handed to queueBindingTask that were queued already
Ticked(id, replayed, offered, discarded) ==
    [id |-> id, replayed |-> replayed, offered |-> offered, discarded |-> discarded]

\* bindingQueue.size() < 16   (1478)
MaxBindingQueue == 16

\* an index that wraps to the second rule of the list
VerifyIndexFromSecond(iter, n) == IF iter >= n THEN (IF n > 1 THEN 1 ELSE 0) ELSE iter

\* if (verifyRuleIter >= rules.size()) verifyRuleIter = 0   (1469-1472)
VerifyIndex(iter, n) == IF iter >= n THEN 0 ELSE iter

\* the 5 s rule timer fires: verifyRuleBindingsTimerFired(); due is
\* (rule.lastVerify + Rule::MaxVerifyDelay) < idleTotalCounter
VerifyRuleBindingsTimerFired(cap) ==
    /\ nTicks < cap
    /\ inNetwork
    /\ rules # << >>
    /\ nTicks' = nTicks + 1
    /\ \E due \in BOOLEAN :
         LET k == VerifyIndex(verifyRuleIter, Len(rules))
             r == triggerRuleIfNeeded(rules[k + 1], Queues(tasks, runningTasks, sendTime, nOffered),
                                      luxState, inNetwork, now)
         IN  /\ rules' = [rules EXCEPT ![k + 1] = r.rule]
             /\ tasks' = r.q.tasks
             /\ nOffered' = r.q.n
             /\ luxState' = r.lux
             /\ bindingQueue' = IF Len(bindingQueue) < MaxBindingQueue
                                   /\ r.rule.state = "StateNormal" /\ due
                                THEN queueCheckRuleBindings(bindingQueue, r.rule)
                                ELSE bindingQueue
             /\ verifyRuleIter' = k + 1
             /\ tlast' = Ticked(rules[k + 1].id, r.replayed, r.q.offered,
                                IF Len(bindingQueue) < MaxBindingQueue
                                   /\ r.rule.state = "StateNormal" /\ due
                                THEN {t \in Handed(r.rule) :
                                        \E j \in 1..Len(bindingQueue) : bindingQueue[j] = t}
                                ELSE {})
             /\ last' = Op("verifyRuleBindingsTimerFired", rules[k + 1].id, TRUE, NoPass)
    /\ UNCHANGED <<runningTasks, inNetwork, available, sendTime, now, lastId, sentSinceTick,
                   nPosts, issued, rlast, gpVars, nodeVars>>

\* an illuminance report arrives, the cached value ages, the time of the
\* last read request passes
IlluminanceChanged ==
    /\ \E l \in LuxValues, f \in BOOLEAN, keep \in BOOLEAN :
         /\ luxState' = LuxState(l, f, luxState.readRequested /\ keep)
         /\ luxState' # luxState
    /\ UNCHANGED <<pipeVars, rules, nPosts, issued, bindingQueue, rlast, gpVars, verifyRuleIter, nTicks, tlast,
                   nodeVars>>

\* the rule timer after construction: no value cached; the constructor
\* gives verifyRuleIter no value, I holds the values it starts with
InitTicks(I) ==
    /\ verifyRuleIter \in I
    /\ luxState = LuxState(150, FALSE, FALSE)
    /\ nTicks = 0
    /\ tlast = Ticked(NoId, {}, << >>, {})

\* the rule store after construction: no rules
InitRules ==
    /\ rules = << >>
    /\ nPosts = 0
    /\ issued = {rules[k].id : k \in DOMAIN rules}
    /\ bindingQueue = << >>
    /\ rlast = Request("init", NoId, NoBody, [http |-> 200, id |-> NoId])
    /\ InitSensors
    /\ InitNodes
    /\ InitTicks({0})

(***************************************************************************)
(* The pipeline with a handful of requests, every radio result.            *)
(***************************************************************************)
Init ==
    /\ tasks = << >>
    /\ runningTasks = << >>
    /\ inNetwork = TRUE
    /\ available = {1}
    /\ sendTime = [g \in Groups |-> InvalidTime]
    /\ now = 0
    /\ nOffered = 0
    /\ lastId = -1
    /\ sentSinceTick = 0
    /\ last = Op("init", NoArg, TRUE, NoPass)
    /\ InitRules

Next ==
    \/ AddTaskCall(UnicastTemplates, MaxOffers, FALSE)
    \/ AddTaskAndProcess(UnicastTemplates, MaxOffers, RadioResults)
    \/ TaskTimerFired(RadioResults)
    \/ ApsdeDataConfirm(RadioResults)
    \/ NetworkStateChanged
    \/ LightAvailabilityChanged
    \/ RefreshAll

Spec == Init /\ [][Next]_vars

(***************************************************************************)
(* The pipeline with group-addressed requests, the clock of the group send *)
(* delay, and handlers that offer one TaskItem object more than once.      *)
(***************************************************************************)
NextGroup ==
    \/ AddTaskCall(GroupTemplates, MaxGroupOffers, TRUE)
    \/ AddTaskAndProcess(GroupTemplates, MaxGroupOffers, RadioResults)
    \/ TaskTimerFired(RadioResults)
    \/ ApsdeDataConfirm(RadioResults)
    \/ TimeAdvance

SpecGroup == Init /\ [][NextGroup]_vars

(***************************************************************************)
(* The pipeline with a long queue: tasks starts one entry short of         *)
(* MaxTasks, the radio accepts every request.                              *)
(***************************************************************************)
\* the state after n handlers had their TaskItem accepted in a row
InitLoaded(n, w) ==
    /\ tasks = Preloaded(n, w)
    /\ runningTasks = << >>
    /\ inNetwork = TRUE
    /\ available = {1}
    /\ sendTime = [g \in Groups |-> InvalidTime]
    /\ now = 0
    /\ nOffered = n
    /\ lastId = n - 1
    /\ sentSinceTick = 0
    /\ last = Op("init", NoArg, TRUE, NoPass)
    /\ InitRules

InitFull == InitLoaded(MaxTasks - 1, 1)

NextFull ==
    \/ AddTaskCall(FullTemplates, MaxTasks - 1 + MaxRefill, FALSE)
    \/ TaskTimerFired({"Success"})
    \/ ApsdeDataConfirm({"Success"})

SpecFull == InitFull /\ [][NextFull]_vars

(***************************************************************************)
(* The pipeline with queued requests for many nodes, the radio accepts     *)
(* every request.                                                          *)
(***************************************************************************)
InitWide == InitLoaded(Nodes + 1, Nodes)

NextWide ==
    \/ AddTaskCall(WideTemplates, Nodes + 1 + MaxRefill, FALSE)
    \/ TaskTimerFired({"Success"})
    \/ ApsdeDataConfirm({"Success"})

SpecWide == InitWide /\ [][NextWide]_vars

(***************************************************************************)
(* The rule store under POST, PUT and DELETE requests.                     *)
(***************************************************************************)
NextRules ==
    \/ PostRule(PostBodies, MaxPosts)
    \/ PutRule(PutBodies, MaxPosts)
    \/ DeleteRule(MaxPosts)

SpecRules == Init /\ [][NextRules]_vars

(***************************************************************************)
(* The rule store under requests whose lists have every size class.        *)
(***************************************************************************)
NextRuleSizes ==
    \/ PostRule(PostSizeBodies, MaxSizePosts)
    \/ PutRule(PutSizeBodies, MaxSizePosts)
    \/ DeleteRule(MaxSizePosts)

SpecRuleSizes == Init /\ [][NextRuleSizes]_vars

(***************************************************************************)
(* POST requests on a rule store that already holds rules: every order of  *)
(* distinct ids, every choice of the rules that are marked Deleted.        *)
(***************************************************************************)
\* a rule the store holds before the requests; rules with different ids
\* differ in their actions
StoredRule(n, deleted) ==
    [Rule(n, "stored", IF deleted THEN "disabled" ELSE "enabled",
          <<ButtonBelow>>, LightActions(n + 1))
     EXCEPT !.state = IF deleted THEN "StateDeleted" ELSE "StateNormal"]

\* the orders in which the vector rules may hold rules of distinct ids
StoredIdLists ==
    {s \in UNION {[1..n -> 1..MaxStoredId] : n \in 0..MaxStoredId} :
        \A i, j \in DOMAIN s : i # j => s[i] # s[j]}

InitRuleIds ==
    /\ tasks = << >>
    /\ runningTasks = << >>
    /\ inNetwork = TRUE
    /\ available = {1}
    /\ sendTime = [g \in Groups |-> InvalidTime]
    /\ now = 0
    /\ nOffered = 0
    /\ lastId = -1
    /\ sentSinceTick = 0
    /\ last = Op("init", NoArg, TRUE, NoPass)
    /\ \E s \in StoredIdLists, D \in SUBSET (1..MaxStoredId) :
         rules = [i \in DOMAIN s |-> StoredRule(s[i], s[i] \in D)]
    /\ nPosts = 0
    /\ issued = {rules[k].id : k \in DOMAIN rules}
    /\ bindingQueue = << >>
    /\ rlast = Request("init", NoId, NoBody, [http |-> 200, id |-> NoId])
    /\ InitSensors
    /\ InitNodes
    /\ InitTicks({0})

NextRuleIds == PostRule(PostBodies, MaxIdPosts)

SpecRuleIds == InitRuleIds /\ [][NextRuleIds]_vars

(***************************************************************************)
(* The rule store and the binding queue under requests on rules that name  *)
(* a binding source, in and out of the network.                            *)
(***************************************************************************)
NextBindings ==
    \/ PostRule(BindPostBodies, MaxBindPosts)
    \/ PutRule(BindPutBodies, MaxBindPosts)
    \/ DeleteRule(MaxBindPosts)
    \/ NetworkStateChanged

SpecBindings == Init /\ [][NextBindings]_vars

(***************************************************************************)
(* The node registry under node events of the device of switch 1 and of    *)
(* the device of the lights 1 and 3.                                       *)
(***************************************************************************)
\* the devices whose nodes change
RegistryDevices == {11, 21}

NextRegistry ==
    \/ NodeZombieChanged(RegistryDevices)
    \/ UpdatedClusterData(RegistryDevices)
    \/ ActiveEndpointsUpdated(RegistryDevices)
    \/ CheckAllSensorsAvailable

SpecRegistry == Init /\ [][NextRegistry]_vars

(***************************************************************************)
(* The responses of the group cluster, with the capacity and the count at  *)
(* the ends of their range, and the group task timer.                      *)
(***************************************************************************)
\* the fields capacity and count of the GetGroupMembership responses
ResponseCapacities == {1, 254}
ResponseCounts == {0, 2, 255}

\* the responses of the lights: GetGroupMembership responses, AddGroup
\* responses with the status SUCCESS and DUPLICATE_EXISTS, RemoveGroup
\* responses with the status SUCCESS and NOT_FOUND for a group of the light
\* and for a group the gateway does not know
ClusterResponses ==
    {GroupResponse("GetGroupMembershipResponse", c, n, gl, 0, 0) :
        c \in ResponseCapacities, n \in ResponseCounts, gl \in {<< >>, <<2>>, <<2, 3>>}}
    \cup {GroupResponse("AddGroupResponse", 0, 0, << >>, st, 1) : st \in {0, 138}}
    \cup {GroupResponse("RemoveGroupResponse", 0, 0, << >>, st, g) : st \in {0, 139}, g \in {1, 4}}

NextGroupCluster ==
    \/ GroupClusterIndication(IndicationSources, ClusterResponses, MaxIndications, TRUE)
    \/ GroupTaskTimerFired

SpecGroupCluster == Init /\ [][NextGroupCluster]_vars

(***************************************************************************)
(* Membership drift: light 1 answers the membership query again and        *)
(* again, the radio joins and leaves the network, the device of the lights *)
(* 1 and 3 comes and goes, the group task timer fires every 250 ms.        *)
(***************************************************************************)
\* GetGroupMembership responses that name every group, one group or none
DriftResponses ==
    {GroupResponse("GetGroupMembershipResponse", 8, Len(gl), gl, 0, 0) :
        gl \in {<< >>, <<1>>, <<2>>, <<1, 2>>}}

\* light 1 answers
DriftSources == {<<21, 10>>}

NextGroupSync ==
    \/ GroupClusterIndication(DriftSources, DriftResponses, 0, FALSE)
    \/ GroupTaskTimerFired
    \/ NetworkStateChanged
    \/ NodeZombieChanged({21})

\* the timer is periodic (setSingleShot(false), 194-198)
SpecGroupSync == Init /\ [][NextGroupSync]_vars /\ WF_vars(GroupTaskTimerFired)

(***************************************************************************)
(* Bindings are installed and removed: rules on the switches 1 and 11 are  *)
(* created and deleted, verified by the rule timer, in and out of the      *)
(* network, while the device of switch 1 leaves and comes back.            *)
(***************************************************************************)
\* buttonevent eq v on switch s
ButtonOf(s, v) == RuleCondition(SensorAddress(s, "/state/buttonevent"), "eq", v)

\* bodies of POST requests of rules with one binding: from an endpoint of
\* switch 1, from an endpoint of switch 11, which is switched off, from an
\* endpoint the switch does not have, for two clusters, from an endpoint of
\* switch 11 when button 3 of switch 1 is pressed, and of a rule that is
\* disabled
InstallPostBodies ==
    { Body(AllKeys, "a", "", <<ButtonOf(1, <<"2">>)>>, <<BindLight(1, {"bri"})>>),
      Body(AllKeys, "a", "", <<ButtonOf(11, <<"2">>)>>, <<BindLight(1, {"bri"})>>),
      Body(AllKeys, "a", "", <<ButtonOf(1, <<"3">>)>>, <<BindLight(1, {"bri"})>>),
      Body(AllKeys, "a", "", <<ButtonOf(1, <<"1">>)>>, <<BindLight(2, {"on", "bri"})>>),
      Body(AllKeys, "a", "", <<ButtonOf(11, <<"2">>), ButtonOf(1, <<"3">>)>>,
           <<BindLight(1, {"bri"})>>),
      Body(AllKeys \cup {"status"}, "a", "disabled", <<ButtonOf(1, <<"2">>)>>,
           <<BindLight(1, {"bri"})>>) }

NextInstall ==
    \/ PostRule(InstallPostBodies, MaxInstallPosts)
    \/ DeleteRule(MaxInstallPosts)
    \/ VerifyRuleBindingsTimerFired(MaxTicks)
    \/ NetworkStateChanged
    \/ NodeZombieChanged({11})

SpecInstall == Init /\ [][NextInstall]_vars

(***************************************************************************)
(* The rule timer over a store of three rules, with a binding queue that   *)
(* is empty, one short of full, or full.                                   *)
(***************************************************************************)
\* n BindingTasks of other rules, bound to groups
QueuedBindings(n) ==
    [i \in 1..n |->
        [BindingTask("ActionBind", [sensor |-> 1, addr |-> SensorNodes[1].ext, ep |-> 2])
         EXCEPT !.dstAddrMode = "ApsGroupAddress", !.dstAddress = 100 + i,
                !.clusterId = ClusterWords[1]]]

\* the rules the store holds: a rule with a binding, a deleted rule, a rule
\* with two bindings
VerifiedRules ==
    << Rule(1, "a", "enabled", <<ButtonOf(1, <<"2">>)>>, <<BindLight(1, {"bri"})>>),
       [Rule(2, "b", "disabled", <<ButtonOf(1, <<"2">>)>>, <<GroupAction(1, "true")>>)
        EXCEPT !.state = "StateDeleted"],
       Rule(3, "c", "enabled", <<ButtonOf(1, <<"1">>)>>, <<BindLight(2, {"on", "bri"})>>) >>

InitVerify ==
    /\ tasks = << >>
    /\ runningTasks = << >>
    /\ inNetwork = TRUE
    /\ available = {1}
    /\ sendTime = [g \in Groups |-> InvalidTime]
    /\ now = 0
    /\ nOffered = 0
    /\ lastId = -1
    /\ sentSinceTick = 0
    /\ last = Op("init", NoArg, TRUE, NoPass)
    /\ rules = VerifiedRules
    /\ nPosts = 0
    /\ issued = {rules[k].id : k \in DOMAIN rules}
    /\ bindingQueue \in {QueuedBindings(n) : n \in {0, MaxBindingQueue - 1, MaxBindingQueue}}
    /\ rlast = Request("init", NoId, NoBody, [http |-> 200, id |-> NoId])
    /\ InitSensors
    /\ InitNodes
    /\ InitTicks(0..(Len(VerifiedRules) + 1))

NextVerify ==
    \/ VerifyRuleBindingsTimerFired(MaxVerifyTicks)
    \/ PostRule(InstallPostBodies, MaxInstallPosts)
    \/ NetworkStateChanged

SpecVerify == InitVerify /\ [][NextVerify]_vars

(***************************************************************************)
(* The attribute timer over the lights and sensors as they were added: the *)
(* radio accepts every request.                                            *)
(***************************************************************************)
\* the lights and sensors whose nextReadTime() has passed when the timer
\* fires: every sensor, and all of the lights or none
AttrReady ==
    {[lights |-> L, sensors |-> DOMAIN SensorNodes] : L \in {{}, DOMAIN LightNodes}}

NextAttr ==
    \/ CheckZclAttributeTimerFired({"Success"}, AttrReady, MaxAttrTicks)
    \/ NetworkStateChanged

SpecAttr == Init /\ [][NextAttr]_vars

(***************************************************************************)
(* Sensors are deleted and come back: the switch of device 11 and the      *)
(* green power switch.                                                     *)
(***************************************************************************)
NextLife ==
    \/ DeleteSensor({1, GpSensor})
    \/ SetPermitJoin
    \/ GpCommissioning
    \/ NodeZombieChanged({11})
    \/ ActiveEndpointsUpdated({11})
    \/ CheckAllSensorsAvailable

SpecLife == Init /\ [][NextLife]_vars

(***************************************************************************)
(* The rule store under PUT requests while the clock advances.             *)
(***************************************************************************)
NextEtag ==
    \/ PostRule(PostBodies, MaxSizePosts)
    \/ PutRule(EtagPutBodies, MaxSizePosts)
    \/ TimeAdvance

SpecEtag == Init /\ [][NextEtag]_vars

(***************************************************************************)
(* The rule store under POST, DELETE and GET requests.                     *)
(***************************************************************************)
NextGet ==
    \/ PostRule(PostBodies, MaxPosts)
    \/ DeleteRule(MaxPosts)
    \/ GetRule(MaxPosts)
    \/ GetAllRules

SpecGet == Init /\ [][NextGet]_vars

(***************************************************************************)
(* The rule store under requests with dx and eq conditions.                 *)
(***************************************************************************)
NextConditions ==
    \/ PostRule(ConditionPostBodies, MaxIdPosts)
    \/ PutRule(ConditionPutBodies, MaxIdPosts)

SpecConditions == Init /\ [][NextConditions]_vars

(***************************************************************************)
(* Rules on the green power switch under indications of the switch, in    *)
(* and out of the network, while the clock advances.                       *)
(***************************************************************************)
\* the condition /sensors/10/state/buttonevent eq v
ButtonEq(v) == RuleCondition(SensorAddress(GpSensor, "/state/buttonevent"), "eq", v)

\* the condition /sensors/10/state/lastupdated dx
Updated == RuleCondition(SensorAddress(GpSensor, "/state/lastupdated"), "dx", << >>)

Sixteen == <<"1", "6">>
Seventeen == <<"1", "7">>

\* bodies of POST requests of rules on the switch: one buttonevent
\* condition; a buttonevent and a lastupdated condition; two buttonevent
\* conditions on different values and a lastupdated condition; actions that
\* recall a scene of a group, switch a group and set a light
ButtonPostBodies ==
    { Body(AllKeys, "a", "", <<ButtonEq(Sixteen)>>, <<SceneAction(1, 1)>>),
      Body(AllKeys, "a", "", <<ButtonEq(Sixteen), Updated>>, <<SceneAction(1, 1)>>),
      Body(AllKeys, "a", "", <<ButtonEq(Seventeen), ButtonEq(Sixteen), Updated>>,
           <<SceneAction(2, 1)>>),
      Body(AllKeys, "a", "", <<Updated, ButtonEq(Seventeen)>>,
           <<GroupAction(2, "true"), RuleAction("lights", 1, "PUT", TRUE, {"on"})>>) }

NextButton ==
    \/ PostRule(ButtonPostBodies, MaxButtonPosts)
    \/ GpDataIndication(MaxEvents, {"Success"})
    \/ NetworkStateChanged
    \/ TimeAdvance

SpecButton == Init /\ [][NextButton]_vars

(***************************************************************************)
(* Rules with a period under the rule timer, while the illuminance value   *)
(* changes and the clock advances.                                         *)
(***************************************************************************)
\* the condition /sensors/4/state/illuminance <op> 200
Illuminance(op) ==
    RuleCondition(SensorAddress(LightSensor, "/state/illuminance"), op, <<"2", "0", "0">>)

\* bodies of POST requests of rules with a period of one clock unit: one
\* action on a group; an action on a group before an action that is not a
\* PUT; an action on a light before an action on a sensor; an action on a
\* light before a request the handler of /groups does not know; and a rule
\* without a period
PeriodicPostBodies ==
    { WithPeriodic(Body(AllKeys, "a", "", <<Illuminance("lt")>>, <<GroupAction(1, "true")>>), 1),
      WithPeriodic(Body(AllKeys, "a", "", <<Illuminance("lt")>>,
                        <<GroupAction(1, "true"), RuleAction("lights", 1, "POST", TRUE, {"on"})>>), 1),
      WithPeriodic(Body(AllKeys, "a", "", <<Illuminance("gt")>>,
                        <<RuleAction("lights", 1, "PUT", TRUE, {"on"}),
                          RuleAction("sensors", 4, "PUT", TRUE, {"on"})>>), 1),
      WithPeriodic(Body(AllKeys, "a", "", <<Illuminance("gt")>>,
                        <<RuleAction("lights", 1, "PUT", TRUE, {"on"}), SceneAction(1, 1)>>), 1),
      Body(AllKeys, "a", "", <<Illuminance("lt")>>, <<GroupAction(1, "true")>>) }

\* the values verifyRuleIter may hold before it is assigned first
VerifyRuleIters == 0..MaxPeriodicPosts

InitPeriodic ==
    /\ tasks = << >>
    /\ runningTasks = << >>
    /\ inNetwork = TRUE
    /\ available = {1}
    /\ sendTime = [g \in Groups |-> InvalidTime]
    /\ now = 0
    /\ nOffered = 0
    /\ lastId = -1
    /\ sentSinceTick = 0
    /\ last = Op("init", NoArg, TRUE, NoPass)
    /\ rules = << >>
    /\ nPosts = 0
    /\ issued = {rules[k].id : k \in DOMAIN rules}
    /\ bindingQueue = << >>
    /\ rlast = Request("init", NoId, NoBody, [http |-> 200, id |-> NoId])
    /\ InitSensors
    /\ InitNodes
    /\ InitTicks(VerifyRuleIters)

NextPeriodic ==
    \/ PostRule(PeriodicPostBodies, MaxPeriodicPosts)
    \/ VerifyRuleBindingsTimerFired(MaxTicks)
    \/ IlluminanceChanged
    \/ TimeAdvance

SpecPeriodic == InitPeriodic /\ [][NextPeriodic]_vars

(***************************************************************************)
(* Rules that are posted with status disabled, under indications of the    *)
(* green power switch and under the rule timer.                            *)
(***************************************************************************)
\* the body with the key status
WithStatus(body, status) == [body EXCEPT !.has = @ \cup {"status"}, !.status = status]

\* bodies of POST requests: a disabled rule on the switch, a disabled rule
\* with a period, and the same two rules enabled
StatusPostBodies ==
    { WithStatus(Body(AllKeys, "a", "", <<ButtonEq(Sixteen), Updated>>, <<SceneAction(1, 1)>>),
                 st) : st \in {"disabled", "enabled"} }
    \cup
    { WithStatus(WithPeriodic(Body(AllKeys, "a", "", <<Illuminance("lt")>>,
                                   <<GroupAction(1, "true")>>), 1),
                 st) : st \in {"disabled", "enabled"} }

NextStatus ==
    \/ PostRule(StatusPostBodies, MaxButtonPosts)
    \/ GpDataIndication(MaxEvents, {"Success"})
    \/ VerifyRuleBindingsTimerFired(MaxTicks)
    \/ TimeAdvance

SpecStatus == InitPeriodic /\ [][NextStatus]_vars

(***************************************************************************)
(* PUT requests that carry neither actions nor conditions, on rules that   *)
(* were posted enabled and disabled.                                       *)
(***************************************************************************)
\* bodies of PUT requests: the empty object, a name, a period, a name and a
\* period, and a status
HeadPutBodies ==
    { Body({}, "", "", << >>, << >>),
      Body({"name"}, "b", "", << >>, << >>),
      WithPeriodic(Body({}, "", "", << >>, << >>), 1),
      WithPeriodic(Body({"name"}, "b", "", << >>, << >>), 1),
      WithStatus(Body({}, "", "", << >>, << >>), "disabled") }

NextPutStatus ==
    \/ PostRule(StatusPostBodies, MaxButtonPosts)
    \/ PutRule(HeadPutBodies, MaxButtonPosts)
    \/ TimeAdvance

SpecPutStatus == Init /\ [][NextPutStatus]_vars

(***************************************************************************)
(* The pipeline drains: the radio stays in the network and accepts every   *)
(* request, the task timer keeps firing, every running task is confirmed.  *)
(***************************************************************************)
\* QTime::currentTime() is read again (4349): the clock has moved on, and
\* after the last millisecond of the day it starts again at 0
ClockTick ==
    /\ now' = (now + 1) % (MaxTime + 1)
    /\ last' = Op("time", NoArg, TRUE, NoPass)
    /\ UNCHANGED <<tasks, runningTasks, inNetwork, available, sendTime, nOffered, lastId, sentSinceTick>>
    /\ UNCHANGED ruleVars

\* a firing of the task timer whose pass submits a request
TaskSubmitted == TaskTimerFired({"Success"}) /\ last'.sent # << >>

\* the confirm of a running task
RunningConfirmed == ApsdeDataConfirm({"Success"}) /\ last'.ret

NextDrain ==
    \/ AddTaskCall(GroupTemplates, MaxGroupOffers, FALSE)
    \/ TaskTimerFired({"Success"})
    \/ ApsdeDataConfirm({"Success"})
    \/ ClockTick

\* the timer of 100 ms fires again and again (188-192) and is not tied to
\* the clock values at which a group is inside its send delay, the radio
\* confirms every request it accepted, time passes
SpecDrain ==
    /\ Init
    /\ [][NextDrain]_vars
    /\ WF_vars(TaskTimerFired({"Success"}))
    /\ SF_vars(TaskSubmitted)
    /\ WF_vars(RunningConfirmed)
    /\ WF_vars(ClockTick)

(***************************************************************************)
(* Responses of the scene cluster from the lights, for groups of the group *)
(* table and for a group that is not in it.                                *)
(***************************************************************************)
\* GetSceneMembership responses with the status SUCCESS and NOT_FOUND that
\* name the scenes of group 1, no scene of group 2, and group 9; StoreScene
\* and RemoveScene responses for scene 1 of the groups 1 and 9
SceneResponses ==
    {SceneResponse("GetSceneMembershipResponse", st, c, g, Len(GroupScenes[g]), GroupScenes[g]) :
        st \in {0, 139}, c \in {3, 16}, g \in {1, 2}}
    \cup {SceneResponse("GetSceneMembershipResponse", st, c, 9, 0, << >>) :
            st \in {0, 139}, c \in {3, 16}}
    \cup {SceneResponse(cmd, 0, 0, g, 0, <<1>>) :
            cmd \in {"StoreSceneResponse", "RemoveSceneResponse"}, g \in {1, 9}}

NextScenes == SceneClusterIndication(IndicationSources, SceneResponses, MaxSceneIndications)

SpecScenes == Init /\ [][NextScenes]_vars

(***************************************************************************)
(* checkConditions on conditions on every attribute of the sensors, with   *)
(* every operator and every kind of value.                                 *)
(***************************************************************************)
NextCheckConditions == CheckConditions(ConditionSamples)

SpecCheckConditions == Init /\ [][NextCheckConditions]_vars

(***************************************************************************)
(* Properties of the pipeline.                                             *)
(***************************************************************************)
\* the step is a pass of processTasks (by the timer, a confirm or a handler)
IsPass(l) ==
    \/ l.op = "taskTimer"
    \/ l.op = "confirm" /\ l.ret
    \/ l.op = "addTaskAndProcess" /\ l.ret

\* C1: no two distinct entries of runningTasks have the same destination
\* address; a task whose destination is busy stays in tasks.
C1_OneRunningPerDestination ==
    \A i, j \in 1..Len(runningTasks) :
        i # j => runningTasks[i].dst # runningTasks[j].dst

\* C1 witness: a pass has left a task in tasks whose destination is busy,
\* while two requests to different destinations are running
C1_Witness ==
    /\ IsPass(last)
    /\ Len(runningTasks) = 2
    /\ \E k \in 1..Len(tasks) : DestinationBusy(tasks[k], runningTasks)

\* number of entries of running tasks rs with request id k
CountId(rs, k) == Cardinality({j \in 1..Len(rs) : rs[j].id = k})

\* the entries a pass moved to runningTasks
Pushed(sent) == SelectSeq(sent, LAMBDA t : ~t.faf)

C4_AtMostFourRunning == Len(runningTasks) <= 4

\* C4 amended: runningTasks never holds more than 5 entries: a pass returns
\* without submitting only when more than 4 tasks are running, so a pass that
\* finds 4 running tasks still submits a fifth.
C4_AtMostFiveRunning == Len(runningTasks) <= 5

\* C4 witness: a pass has left a task in tasks whose destination is not busy,
\* because five tasks are running
C4_Witness ==
    /\ IsPass(last)
    /\ Len(runningTasks) = 5
    /\ last.sent = << >>
    /\ \E k \in 1..Len(tasks) : ~DestinationBusy(tasks[k], runningTasks)

\* C5 as claimed: after a processTasks pass made while the radio is not in
\* network tasks and runningTasks are both empty, and while not in network
\* addTask returns false and leaves tasks unchanged.
C5_ClearedWhenNotInNetwork ==
    [][ /\ (~inNetwork' /\ last'.op \in {"taskTimer", "confirm"} /\ last'.ret)
            => (tasks' = << >> /\ runningTasks' = << >>)
        /\ (~inNetwork' /\ last'.op \in {"addTask", "addTaskAndProcess"})
            => (~last'.ret /\ tasks' = tasks)
      ]_vars

\* C6 as claimed: a submitted task B is never submitted while a task A with
\* the same destination that was offered to addTask before B is still in
\* tasks (neither submitted nor dropped).
C6_FifoByOffer ==
    \A b \in 1..Len(last.sent) : \A a \in 1..Len(tasks) :
        tasks[a].dst = last.sent[b].dst => tasks[a].ord > last.sent[b].ord

\* C6 amended: the entry a pass of processTasks submits is the first entry of
\* tasks (in queue order) to its destination that the pass did not try in
\* vain: every entry to that destination that stood before it was refused by
\* the radio or deferred in that same pass.
C6_QueueOrderPerDestination ==
    \A b \in 1..Len(last.sent) :
        \A a \in 1..(last.pos - 1) :
            tasks[a].dst = last.sent[b].dst =>
                \E r \in 1..Len(last.refused) : last.refused[r] = tasks[a]

\* C6 witness: a pass has submitted a task that was offered after a task to
\* the same destination which is still queued (the radio refused the earlier
\* one, or the later one was coalesced into a slot before it)
C6_Witness ==
    /\ IsPass(last)
    /\ \E b \in 1..Len(last.sent) : \E a \in 1..Len(tasks) :
          /\ tasks[a].dst = last.sent[b].dst
          /\ tasks[a].ord < last.sent[b].ord

\* C7 as claimed: at most one task is submitted to the radio between two
\* consecutive firings of the task timer.
C7_OneSubmitPerTick == sentSinceTick <= 1

\* C7 amended: every single invocation of processTasks submits at most one
\* task, whoever calls it.
C7_OneSubmitPerPass == Len(last.sent) <= 1

\* C7 witness: a confirm has made processTasks submit a second task since the
\* task timer fired last
C7_Witness ==
    /\ last.op = "confirm"
    /\ Len(last.sent) = 1
    /\ sentSinceTick = 2

(***************************************************************************)
(* Properties of the rule store.                                           *)
(***************************************************************************)
\* every rule of rs has 1 to 8 conditions and 1 to 8 actions
ListSizesInRange(rs) ==
    \A k \in 1..Len(rs) :
        /\ Len(rs[k].conditions) \in 1..8
        /\ Len(rs[k].actions) \in 1..8

\* the request carries a list of conditions or of actions with no item or
\* with more than 8 items (a POST without the key carries the empty list)
CarriesBadList(req) ==
    \/ /\ req.op = "POST"
       /\ \/ Len(req.body.conditions) = 0 \/ Len(req.body.conditions) > 8
          \/ Len(req.body.actions) = 0 \/ Len(req.body.actions) > 8
    \/ /\ req.op = "PUT"
       /\ \/ /\ "conditions" \in req.body.has
             /\ (Len(req.body.conditions) = 0 \/ Len(req.body.conditions) > 8)
          \/ /\ "actions" \in req.body.has
             /\ (Len(req.body.actions) = 0 \/ Len(req.body.actions) > 8)

\* C8: after any sequence of POST, PUT and DELETE every stored rule has 1 to
\* 8 conditions and 1 to 8 actions, and a POST or PUT that carries 0 or more
\* than 8 conditions or actions is answered 400 and leaves the store as it was.
C8_RuleListSizes ==
    [][ /\ ListSizesInRange(rules')
        /\ CarriesBadList(rlast') => (rlast'.http = 400 /\ rules' = rules)
      ]_vars

\* C8 witness: a PUT with 9 conditions for a stored Normal rule that has 8
\* conditions and 8 actions was answered 400
C8_Witness ==
    /\ rlast.op = "PUT"
    /\ Len(rlast.body.conditions) = 9
    /\ rlast.http = 400
    /\ \E k \in 1..Len(rules) :
          /\ rules[k].id = rlast.arg
          /\ rules[k].state = "StateNormal"
          /\ Len(rules[k].conditions) = 8
          /\ Len(rules[k].actions) = 8

\* two rules in state Normal have equal conditions and equal actions
EqualNormalRules(rs) ==
    \E i, j \in 1..Len(rs) :
        /\ i < j
        /\ rs[i].state = "StateNormal"
        /\ rs[j].state = "StateNormal"
        /\ rs[i].conditions = rs[j].conditions
        /\ rs[i].actions = rs[j].actions

\* positions of the rules of rs with the conditions and actions of body
EqualTo(rs, body) ==
    {k \in 1..Len(rs) :
        rs[k].conditions = body.conditions /\ rs[k].actions = body.actions}

\* C9 as claimed: after every successful POST no two rules in state Normal
\* have the same conditions and the same actions, whatever came before.
C9_NoEqualNormalRulesAfterPost ==
    (rlast.op = "POST" /\ rlast.http = 200) => ~EqualNormalRules(rules)

\* C9 amended: a successful POST adds no rule equal (in conditions and
\* actions) to a stored one: when stored rules, of any state, equal the posted
\* rule, the first of them is overwritten in place by the new rule and every
\* other rule stays as it is; otherwise the new rule is appended.  The new
\* rule is in state Normal.  (Rules a PUT made equal are not merged.)
C9_PostReplacesFirstEqual ==
    [][ (rlast'.op = "POST" /\ rlast'.http = 200) =>
          LET body == rlast'.body
              M == EqualTo(rules, body)
              k == IF M = {} THEN Len(rules) + 1
                   ELSE CHOOSE m \in M : \A n \in M : m <= n
          IN  /\ Len(rules') = (IF M = {} THEN Len(rules) + 1 ELSE Len(rules))
              /\ \A i \in 1..Len(rules) : i # k => rules'[i] = rules[i]
              /\ rules'[k].conditions = body.conditions
              /\ rules'[k].actions = body.actions
              /\ rules'[k].state = "StateNormal"
              /\ rules'[k].id = rlast'.id
      ]_vars

\* C9 witness: a POST was answered 200 and the store holds two Normal rules
\* with equal conditions and actions (a PUT made them equal before)
C9_Witness ==
    /\ rlast.op = "POST"
    /\ rlast.http = 200
    /\ EqualNormalRules(rules)

\* C10 as claimed: a POST of rule R directly followed by a POST with the
\* same conditions and actions: the second returns the id the first returned,
\* the number of rules is unchanged and one rule for R is stored.
C10_SecondPostSameId ==
    [][ (rlast'.op = "POST" /\ rlast'.prev # NoId) =>
          /\ rlast'.id = rlast'.prev
          /\ Len(rules') = Len(rules)
          /\ Cardinality(EqualTo(rules', rlast'.body)) = 1
      ]_vars

\* C10 amended: a POST of rule R directly followed by a POST with the same
\* conditions and actions: the second returns a new id, different from the
\* id the first returned; the rule the first POST stored is overwritten in
\* place by the new rule, so the number of rules is unchanged, no rule has
\* the first id any more, and as many rules equal R as before.
C10_SecondPostNewId ==
    [][ (rlast'.op = "POST" /\ rlast'.prev # NoId) =>
          /\ rlast'.http = 200
          /\ rlast'.id # rlast'.prev
          /\ Len(rules') = Len(rules)
          /\ \E k \in 1..Len(rules) :
                /\ rules[k].id = rlast'.prev
                /\ rules'[k].id = rlast'.id
                /\ rules'[k].conditions = rlast'.body.conditions
                /\ rules'[k].actions = rlast'.body.actions
                /\ \A i \in 1..Len(rules) : i # k => rules'[i] = rules[i]
          /\ \A i \in 1..Len(rules') : rules'[i].id # rlast'.prev
          /\ Cardinality(EqualTo(rules', rlast'.body))
                = Cardinality(EqualTo(rules, rlast'.body))
      ]_vars

\* C10 witness: the second of two POSTs in a row with equal conditions and
\* actions was answered 200, another rule is stored besides
C10_Witness ==
    /\ rlast.op = "POST"
    /\ rlast.http = 200
    /\ rlast.prev # NoId
    /\ Len(rules) = 2

\* the ids of the rules the store holds, whatever their state
StoredIds(rs) == {rs[k].id : k \in 1..Len(rs)}

\* the smallest positive integer that is not the id of a rule of the store
SmallestUnusedId(rs) ==
    CHOOSE n \in 1..(Len(rs) + 1) :
        /\ n \notin StoredIds(rs)
        /\ \A m \in 1..(n - 1) : m \in StoredIds(rs)

\* C11: the id a successful POST /rules returns is the smallest positive
\* integer that is not the id of any rule the store held when the request
\* came, Deleted rules included, for every content of the store.
C11_SmallestUnusedId ==
    [][nPosts' = nPosts + 1 =>
          /\ rlast'.op = "POST" /\ rlast'.http = 200
          /\ rlast'.id = SmallestUnusedId(rules)
          /\ rlast'.id \notin StoredIds(rules)
          /\ \E k \in 1..Len(rules') : rules'[k].id = rlast'.id]_vars

\* C11 witness: a POST returned 2 while the store held a rule with id 3 in
\* front of a Deleted rule with id 1, so that the id was found in a later
\* pass over the rules and fills a gap.
C11_Witness ==
    /\ rlast.op = "POST" /\ rlast.http = 200 /\ rlast.id = 2
    /\ nPosts = 1
    /\ Len(rules) = 3
    /\ rules[1].id = 3
    /\ rules[2].id = 1 /\ rules[2].state = "StateDeleted"
    /\ rules[3].id = 2

\* a step that handles a PUT request: the requests leave the pipeline, the
\* sensor states, the rule timer and the node registry alone
PutStep == rlast'.op = "PUT" /\ UNCHANGED <<pipeVars, gpVars, tickVars, nodeVars>>

\* a step that handles a POST request
PostStep == rlast'.op = "POST" /\ UNCHANGED <<pipeVars, gpVars, tickVars, nodeVars>>

\* the fields of a rule that a client reads and writes
RuleFields(r) == <<r.name, r.status, r.triggerPeriodic, r.conditions, r.actions, r.etag>>

\* C12: a POST or PUT on /rules that is answered 400 leaves the engine state
\* unchanged: every stored rule keeps its name, status, periodic, conditions,
\* actions and etag, and bindingQueue is unchanged, also when checkActions or
\* checkConditions refuses a PUT.
C12_RejectedRequestChangesNothing ==
    [][((PutStep \/ PostStep) /\ rlast'.http = 400) =>
          /\ Len(rules') = Len(rules)
          /\ \A k \in 1..Len(rules) : RuleFields(rules'[k]) = RuleFields(rules[k])
          /\ bindingQueue' = bindingQueue]_vars

\* the tasks of the second queue that the first does not hold
Queued(bq, bq2) == {bq2[j] : j \in 1..Len(bq2)} \ {bq[j] : j \in 1..Len(bq)}

\* the binding tasks that undo the bindings of a rule: one per BIND action on
\* a light and cluster word of its body, from the endpoint that the value of
\* its buttonevent condition names
UnbindTasksOf(r) ==
    LET conds == {r.conditions[i] : i \in 1..Len(r.conditions)}
        binds == {p \in {r.actions[i] : i \in 1..Len(r.actions)} \X {"on", "bri"} :
                     /\ p[1].method = "BIND"
                     /\ p[1].address.res = "lights"
                     /\ p[2] \in p[1].keys}
    IN  {[state |-> "StateCheck", action |-> "ActionUnbind", restNode |-> c.address.sensor,
          srcAddress |-> SensorNodes[c.address.sensor].ext,
          srcEndpoint |-> ToUShort(c.value).value,
          dstAddrMode |-> "ApsExtAddress", dstAddress |-> LightNodes[p[1].address.id].ext,
          dstEndpoint |-> LightNodes[p[1].address.id].endpoint, clusterId |-> p[2]] :
            c \in conds, p \in binds}

\* the request carries actions or conditions
CarriesLists(body) == "actions" \in body.has \/ "conditions" \in body.has

NoFieldDiffers(r, body) ==
    /\ "name" \in body.has => body.name = r.name
    /\ "status" \in body.has => body.status = r.status
    /\ "periodic" \in body.has => body.periodic = r.triggerPeriodic
    /\ "actions" \in body.has => body.actions = r.actions
    /\ "conditions" \in body.has => body.conditions = r.conditions

\* C14: a PUT /rules/<id> in which no field differs from the rule's current
\* value (name, status, periodic, and also actions or conditions equal to the
\* stored ones) leaves the rule's etag unchanged.
C14_EqualPutKeepsEtag ==
    [][(/\ PutStep
        /\ rlast'.http = 200
        /\ NormalRuleIndex(rules, rlast'.arg) # 0
        /\ NoFieldDiffers(rules[NormalRuleIndex(rules, rlast'.arg)], rlast'.body)) =>
          rules'[NormalRuleIndex(rules, rlast'.arg)].etag
              = rules[NormalRuleIndex(rules, rlast'.arg)].etag]_vars

\* the ids of the stored rules in state Deleted
DeletedIds(rs) == {rs[k].id : k \in {j \in 1..Len(rs) : rs[j].state = "StateDeleted"}}

\* C15: a rule in state Deleted is never visible through the REST surface:
\* GET /rules/<id> answers 404 for it, in particular directly after a
\* successful DELETE of <id>, and GET /rules never lists it.
C15_DeletedRuleNotVisible ==
    /\ [](rlast.op = "GET" /\ rlast.arg \in DeletedIds(rules) => rlast.http = 404)
    /\ [](rlast.op = "GETALL" => rlast.listed \cap DeletedIds(rules) = {})
    /\ [](rlast.op = "GETALL" =>
            rlast.listed = StoredIds(rules) \ DeletedIds(rules))
    /\ [][(/\ rlast.op = "DELETE" /\ rlast.http = 200
           /\ rlast'.op = "GET" /\ rlast'.arg = rlast.arg) => rlast'.http = 404]_vars

\* C15 witness: GET /rules/<id> was answered 404 for a rule the store holds
\* in state Deleted, next to a rule in state Normal.
C15_Witness ==
    /\ rlast.op = "GET" /\ rlast.http = 404
    /\ rlast.arg \in DeletedIds(rules)
    /\ StoredIds(rules) \ DeletedIds(rules) # {}

\* the conditions of a list
ConditionsOf(list) == {list[i] : i \in 1..Len(list)}

\* the list has a condition with operator dx and a value
CarriesDxWithValue(list) == \E c \in ConditionsOf(list) : c.operator = "dx" /\ c.value # << >>

\* every stored condition whose operator is dx has an empty value
StoredDxHaveNoValue ==
    \A k \in 1..Len(rules) : ~CarriesDxWithValue(rules[k].conditions)

\* C16 as the specification states it: every stored dx condition has an empty
\* value, and every POST or PUT that carries a dx condition with a value is
\* answered 400.
C16_DxWithValueAlways400 ==
    /\ [](StoredDxHaveNoValue)
    /\ []((rlast.op \in {"POST", "PUT"} /\ CarriesDxWithValue(rlast.body.conditions)) =>
             rlast.http = 400)

\* C16 (amended): after any sequence of POST and PUT every stored condition
\* whose operator is dx has an empty value; a POST that carries a dx condition
\* with a value is answered 400, and so is a PUT on the id of a rule in state
\* Normal; a PUT on an id that no rule in state Normal has is answered 200
\* when its parameters pass the checks of sizes and keys, and changes nothing.
C16_DxWithValueNeverStored ==
    /\ [](StoredDxHaveNoValue)
    /\ []((rlast.op = "POST" /\ CarriesDxWithValue(rlast.body.conditions)) => rlast.http = 400)
    /\ [][(PutStep /\ CarriesDxWithValue(rlast'.body.conditions)) =>
            IF NormalRuleIndex(rules, rlast'.arg) # 0
            THEN rlast'.http = 400 /\ StoredDxHaveNoValue'
            ELSE /\ rules' = rules
                 /\ (rlast'.body.has = {"conditions"} /\ Len(rlast'.body.conditions) \in 1..8)
                        => rlast'.http = 200]_vars

\* C16 witness: a PUT that carries a dx condition with a value on a rule in
\* state Normal was answered 400 while the store holds a dx condition, which
\* has no value.
C16_Witness ==
    /\ rlast.op = "PUT" /\ rlast.http = 400
    /\ CarriesDxWithValue(rlast.body.conditions)
    /\ NormalRuleIndex(rules, rlast.arg) # 0
    /\ \E k \in 1..Len(rules) : \E c \in ConditionsOf(rules[k].conditions) :
           c.operator = "dx" /\ c.value = << >>

\* the attribute an address names: the part behind /config/ or /state/
AttributeName(attr) ==
    CASE attr = "/state/lastupdated" -> "lastupdated"
      [] attr = "/config/long" -> "long"
      [] attr = "/config/lat" -> "lat"
      [] attr = "/state/presence" -> "presence"
      [] attr = "/config/reachable" -> "reachable"
      [] attr = "/config/on" -> "on"
      [] attr = "/state/open" -> "open"
      [] attr = "/state/flag" -> "flag"
      [] attr = "/state/daylight" -> "daylight"
      [] attr = "/state/illuminance" -> "illuminance"
      [] attr = "/config/battery" -> "battery"
      [] attr = "/state/buttonevent" -> "buttonevent"
      [] attr = "/state/temperature" -> "temperature"
      [] attr = "/state/humidity" -> "humidity"
      [] attr = "/config/sunriseoffset" -> "sunriseoffset"
      [] attr = "/config/sunsetoffset" -> "sunsetoffset"
      [] OTHER -> "other"

\* the operators and values the specification lists for an attribute
ListedFor(name) ==
    IF name \in {"lastupdated", "long", "lat"}
    THEN [ops |-> {"dx"}, values |-> ""]
    ELSE IF name \in {"presence", "reachable", "on", "open", "flag", "daylight"}
    THEN [ops |-> {"dx", "eq"}, values |-> "boolean"]
    ELSE IF name \in {"illuminance", "battery", "buttonevent", "temperature", "humidity"}
    THEN [ops |-> {"dx", "eq", "lt", "gt"}, values |-> "numbers"]
    ELSE IF name \in {"sunriseoffset", "sunsetoffset"}
    THEN [ops |-> {"eq", "gt", "lt"}, values |-> "numbers"]
    ELSE [ops |-> {}, values |-> ""]

\* the condition has an operator the specification lists for its attribute
\* and a value of its value category: no value with dx, true or false, a
\* positive integer
Listed(c) ==
    /\ c.operator \in ListedFor(AttributeName(c.address.attr)).ops
    /\ IF c.operator = "dx" THEN c.value = << >>
       ELSE IF ListedFor(AttributeName(c.address.attr)).values = "boolean"
            THEN c.value \in {<<"t", "r", "u", "e">>, <<"f", "a", "l", "s", "e">>}
       ELSE /\ c.value # << >>
            /\ \A i \in 1..Len(c.value) : c.value[i] \in Digits
            /\ Decimal(c.value, Len(c.value)) > 0
            /\ c.value[1] # "0"

\* C17: checkConditions accepts a condition on an existing sensor attribute
\* exactly when its operator is in the operator set the specification lists
\* for the attribute and its value is of the value category of the attribute:
\* lastupdated, long and lat accept only dx with no value; presence,
\* reachable, on, open, flag and daylight accept eq with true or false;
\* illuminance, battery, buttonevent, temperature and humidity accept eq, lt,
\* gt with a positive integer; sunriseoffset and sunsetoffset accept eq, gt,
\* lt but not dx.
C17_AcceptsWhatIsListed ==
    (rlast.op = "checkConditions" /\ ValidAddress(rlast.body.conditions[1].address)) =>
        (rlast.http = 200 <=> Listed(rlast.body.conditions[1]))

(***************************************************************************)
(* The reactive button-event path.                                         *)
(***************************************************************************)
\* the step is an indication that was mapped to a sensor
IndicationStep == nEvents' = nEvents + 1 /\ glast'.sensor # NoSensor

\* the number a condition value denotes
ValueOf(c) == Decimal(c.value, Len(c.value))

\* rule r has the one condition /sensors/<s>/state/buttonevent eq v
OnlyButtonEq(r, s, v) ==
    /\ Len(r.conditions) = 1
    /\ r.conditions[1].address = SensorAddress(s, "/state/buttonevent")
    /\ r.conditions[1].operator = "eq"
    /\ ValueOf(r.conditions[1]) = v

\* action a addresses a scene of a group of the group table
RecallsScene(a) == a.address.path = "scenes" /\ a.address.res = "groups" /\ a.address.id \in Groups

\* the indication offered a recall of scene sid to group gid and addTask took it
RecallEnqueued(ind, gid, sid) ==
    \E j \in 1..Len(ind.offered) :
        /\ ind.offered[j].ret
        /\ ind.offered[j].task.taskType = "TaskCallScene"
        /\ ind.offered[j].task.dst = GroupAddr(gid)
        /\ ind.offered[j].scene = sid

\* C18: for a rule that is not deleted, whose only condition is
\* /sensors/<s>/state/buttonevent eq v and whose action addresses a scene of
\* an existing group, an indication of sensor s with command id v that is
\* received in the network with room in tasks enqueues a recall-scene task
\* to that group and raises timesTriggered of the rule by exactly one.
C18_ButtonEventRecallsScene ==
    [][(IndicationStep /\ inNetwork /\ Len(tasks) < MaxTasks) =>
        \A k \in 1..Len(rules) :
            (/\ rules[k].state # "StateDeleted"
             /\ OnlyButtonEq(rules[k], glast'.sensor, glast'.cmd)
             /\ \E i \in 1..Len(rules[k].actions) : RecallsScene(rules[k].actions[i]))
            => /\ rules'[k].timesTriggered = rules[k].timesTriggered + 1
               /\ \A i \in 1..Len(rules[k].actions) :
                    RecallsScene(rules[k].actions[i]) =>
                        RecallEnqueued(glast', rules[k].actions[i].address.id,
                                       rules[k].actions[i].address.scene)]_vars

\* condition c holds for the indication: the value of a buttonevent
\* condition is the button event received, a lastupdated condition sees a
\* timestamp that differs from the one before the indication
HoldsFor(c, ind, state) ==
    IF c.address.attr = "/state/buttonevent" THEN c.value # << >> /\ ValueOf(c) = ind.cmd
    ELSE IF c.address.attr = "/state/lastupdated" THEN ind.lastUpdatedOld # state.lastupdated
    ELSE TRUE

\* C19: an indication runs the actions of a rule only if every condition
\* of the rule on the indicating sensor holds, wherever a failing condition
\* stands in the list of conditions.
C19_TriggerOnlyIfAllHold ==
    [][IndicationStep =>
        \A k \in 1..Len(rules) :
            rules[k].id \in glast'.ran =>
                \A i \in 1..Len(rules[k].conditions) :
                    rules[k].conditions[i].address.sensor = glast'.sensor =>
                        HoldsFor(rules[k].conditions[i], glast', sensorState')]_vars

(***************************************************************************)
(* The periodic path.                                                      *)
(***************************************************************************)
\* the step is a tick of the rule timer
TickStep == nTicks' = nTicks + 1

\* a handler answers the replay of action a with REQ_NOT_HANDLED
NotHandled(a) ==
    /\ a.method = "PUT"
    /\ \/ a.address.res = "groups" /\ ~GroupsApiHandles(a)
       \/ a.address.res = "lights" /\ ~LightsApiHandles(a)

\* C20: when a tick of the periodic path has replayed at least one action
\* of a rule, and no handler answered REQ_NOT_HANDLED, the tick sets
\* lastTriggered of the rule to the current time and raises timesTriggered
\* by one, whatever the method or the address of the other actions.
C20_ReplayedRuleIsMarked ==
    [][TickStep =>
        \A k \in 1..Len(rules) :
            (/\ rules[k].id = tlast'.id
             /\ tlast'.replayed # {}
             /\ \A i \in 1..Len(rules[k].actions) : ~NotHandled(rules[k].actions[i]))
            => /\ rules'[k].lastTriggered = now
               /\ rules'[k].timesTriggered = rules[k].timesTriggered + 1]_vars

\* the rule has a condition on the illuminance of a sensor
OnIlluminance(rule) ==
    \E i \in 1..Len(rule.conditions) : rule.conditions[i].address.attr = "/state/illuminance"

\* a forced read of the measured value of the illuminance sensor
ForcedRead(o) ==
    /\ o.task.taskType = "TaskReadAttributes"
    /\ o.task.dst = ExtAddr(SensorNodes[LightSensor].ext)

\* C21: when the illuminance value a periodic rule refers to is not fresh,
\* the tick replays no action and leaves lastTriggered and timesTriggered
\* of the rule alone; the only task it offers is a read of the value, and
\* only when the last read request is older than half the age window; an
\* accepted read starts the window of the read request again.
C21_StaleValueForcesOneRead ==
    [][TickStep =>
        \A k \in 1..Len(rules) :
            (/\ rules[k].id = tlast'.id
             /\ rules[k].triggerPeriodic > 0
             /\ OnIlluminance(rules[k])
             /\ ~luxState.fresh)
            => /\ tlast'.replayed = {}
               /\ rules'[k].lastTriggered = rules[k].lastTriggered
               /\ rules'[k].timesTriggered = rules[k].timesTriggered
               /\ \A j \in 1..Len(tlast'.offered) :
                     ForcedRead(tlast'.offered[j]) /\ ~luxState.readRequested
               /\ Len(tlast'.offered) <= 1
               /\ luxState.readRequested => luxState' = luxState
               /\ (\E j \in 1..Len(tlast'.offered) : tlast'.offered[j].ret)
                     => luxState'.readRequested]_vars

\* a tick found the value stale and its read of the value was accepted
C21_Witness ==
    /\ tlast.replayed = {}
    /\ \E j \in 1..Len(tlast.offered) : ForcedRead(tlast.offered[j]) /\ tlast.offered[j].ret
    /\ ~luxState.fresh
    /\ luxState.readRequested
    /\ \E j \in 1..Len(tasks) : tasks[j].taskType = "TaskReadAttributes"

(***************************************************************************)
(* Bindings of rules.                                                      *)
(***************************************************************************)
\* a step that handles a DELETE request
DeleteStep == rlast'.op = "DELETE" /\ UNCHANGED <<pipeVars, gpVars, tickVars, nodeVars>>

\* the rule has the single condition buttonevent eq e and the single action
\* BIND {"bri": ..} on a light
BindsLevel(r) ==
    /\ Len(r.conditions) = 1
    /\ r.conditions[1].address.attr = "/state/buttonevent"
    /\ r.conditions[1].operator = "eq"
    /\ Len(r.actions) = 1
    /\ r.actions[1].method = "BIND"
    /\ r.actions[1].address.res = "lights"
    /\ r.actions[1].address.id \in DOMAIN LightNodes
    /\ r.actions[1].keys = {"bri"}

\* the sensor of the condition is available and switched on, and the value of
\* the condition is an active endpoint of its node
SourceReady(r) ==
    LET s == r.conditions[1].address.sensor
    IN  /\ s \in DOMAIN SensorNodes
        /\ sensorAvailable[s]
        /\ SensorNodes[s].node
        /\ SensorNodes[s].on
        /\ ToUShort(r.conditions[1].value).ok
        /\ ToUShort(r.conditions[1].value).value \in deviceNodes[SensorNodes[s].ext].endpoints

\* the BindingTask of the level binding of rule r
LevelTask(r, action) ==
    [state |-> "StateCheck", action |-> action, restNode |-> r.conditions[1].address.sensor,
     srcAddress |-> SensorNodes[r.conditions[1].address.sensor].ext,
     srcEndpoint |-> ToUShort(r.conditions[1].value).value,
     dstAddrMode |-> "ApsExtAddress",
     dstAddress |-> LightNodes[r.actions[1].address.id].ext,
     dstEndpoint |-> LightNodes[r.actions[1].address.id].endpoint,
     clusterId |-> "bri"]

\* task t is in the binding queue bq
InQueue(bq, t) == \E j \in 1..Len(bq) : bq[j] = t

\* the request of the step created or deleted rule r, when net holds, and
\* then the level task with the action is in the queue
InstallsAndRemoves(net) ==
    /\ (PostStep /\ rlast'.http = 200) =>
          \A k \in 1..Len(rules') :
              (/\ rules'[k].id = rlast'.id
               /\ rules'[k].state = "StateNormal" /\ rules'[k].status = "enabled"
               /\ BindsLevel(rules'[k]) /\ SourceReady(rules'[k]) /\ net)
              => InQueue(bindingQueue', LevelTask(rules'[k], "ActionBind"))
    /\ (DeleteStep /\ rlast'.http = 200) =>
          \A k \in 1..Len(rules) :
              (/\ k = getRuleForId(rules, rlast'.arg)
               /\ rules[k].status = "enabled"
               /\ BindsLevel(rules[k]) /\ SourceReady(rules[k]) /\ net)
              => InQueue(bindingQueue', LevelTask(rules[k], "ActionUnbind"))

C23_UnbindQueuedWhileOffline ==
    [][(DeleteStep /\ rlast'.http = 200 /\ inNetwork) =>
        \A k \in 1..Len(rules) :
            (/\ k = getRuleForId(rules, rlast'.arg)
             /\ BindsLevel(rules[k])
             /\ InQueue(bindingQueue, LevelTask(rules[k], "ActionBind"))
             /\ ~sensorAvailable[rules[k].conditions[1].address.sensor])
            => InQueue(bindingQueue', LevelTask(rules[k], "ActionUnbind"))]_vars

\* the sensors with the address a
SensorsAt(a) == {s \in DOMAIN SensorNodes : SensorNodes[s].ext = a}

\* C29: a step puts a Bind task into the binding queue only for a rule in
\* state Normal that is enabled, and only from a sensor that is switched on;
\* the tasks a DELETE or the POST of a disabled rule puts there are Unbind
\* tasks.
C29_BindOnlyEnabledAndOn ==
    [][/\ \A t \in Queued(bindingQueue, bindingQueue') :
            t.action = "ActionBind" =>
                /\ \E k \in 1..Len(rules') :
                      /\ rules'[k].state = "StateNormal" /\ rules'[k].status = "enabled"
                      /\ t \in Handed(rules'[k])
                /\ \A s \in SensorsAt(t.srcAddress) : SensorNodes[s].on
       /\ (DeleteStep \/ (PostStep /\ rlast'.body.status = "disabled")) =>
            \A t \in Queued(bindingQueue, bindingQueue') : t.action = "ActionUnbind"]_vars

\* C30: the binding queue never holds two equal BindingTasks, and out of
\* the network no step puts a task there.
C30_NoDoubleEntries ==
    /\ [](\A i, j \in 1..Len(bindingQueue) : bindingQueue[i] = bindingQueue[j] => i = j)
    /\ [][~inNetwork => bindingQueue' = bindingQueue]_vars

\* a tick verified a rule whose Bind task a request had queued: the task
\* was handed to queueBindingTask again and is in the queue once
C30_Witness ==
    /\ tlast.discarded # {}
    /\ \A t \in tlast.discarded :
          Cardinality({j \in 1..Len(bindingQueue) : bindingQueue[j] = t}) = 1

(***************************************************************************)
(* The node registry.                                                      *)
(***************************************************************************)
\* the sensors the step called checkSensorNodeReachable for
CheckedSensors ==
    IF nlast'.event = "checkAllSensorsAvailable" THEN DOMAIN SensorNodes
    ELSE IF nlast'.event \in {"NodeZombieChanged", "ActiveEndpoints"} THEN SensorsOf(nlast'.device)
    ELSE {}

\* sensor s has no endpoint fingerprint, or its node is known, is no zombie
\* and lists the endpoint of the fingerprint
ShouldBeReachable(s, nodes) ==
    \/ SensorFingerPrint(s) = NoEndpoint
    \/ /\ SensorNodes[s].node
       /\ ~nodes[SensorNodes[s].ext].zombie
       /\ SensorFingerPrint(s) \in nodes[SensorNodes[s].ext].endpoints

\* C27: after checkSensorNodeReachable config.reachable and the availability
\* of the sensor are both true when the sensor has no endpoint fingerprint
\* or its node is known, is no zombie and lists the endpoint of the
\* fingerprint, and both false otherwise.
C27_ReachableIffEndpointActive ==
    [][\A s \in CheckedSensors :
          /\ sensorReachable'[s] = ShouldBeReachable(s, deviceNodes')
          /\ sensorAvailable'[s] = ShouldBeReachable(s, deviceNodes')]_vars

\* all sensors were checked: the green power switch is reachable, switch 1
\* is not because its node, which is no zombie, does not list endpoint 2,
\* the illuminance sensor is not because it has no node
C27_Witness ==
    /\ nlast.event = "checkAllSensorsAvailable"
    /\ sensorAvailable[GpSensor] /\ sensorReachable[GpSensor]
    /\ ~deviceNodes[11].zombie /\ 2 \notin deviceNodes[11].endpoints
    /\ ~sensorAvailable[1] /\ ~sensorReachable[1]
    /\ ~sensorAvailable[LightSensor] /\ ~sensorReachable[LightSensor]

\* the lights the step updated: the lights of the node after
\* nodeZombieStateChanged, the light of the event after updateLightNode
UpdatedLights ==
    IF nlast'.event = "NodeZombieChanged"
    THEN {l \in DOMAIN LightNodes : LightNodes[l].ext = nlast'.device}
    ELSE IF nlast'.event = "UpdatedClusterData"
    THEN {getLightNodeForAddress(nlast'.device, nlast'.endpoint)} \ {0}
    ELSE {}

\* C28: after nodeZombieStateChanged and after updateLightNode a light of
\* the node is available exactly when the node is neither in the state
\* Failure nor a zombie and lists the endpoint of the light, whatever the
\* availability of the light and of the other lights of the node was.
C28_LightAvailableIffNodeUp ==
    [][\A l \in UpdatedLights :
          lightAvailable'[l] =
              (/\ ~deviceNodes'[LightNodes[l].ext].failure
               /\ ~deviceNodes'[LightNodes[l].ext].zombie
               /\ LightNodes[l].endpoint \in deviceNodes'[LightNodes[l].ext].endpoints)]_vars

(***************************************************************************)
(* Group membership of the lights.                                         *)
(***************************************************************************)
\* the GroupInfo of light l for group g carries the action bit
HasBit(l, g, bit) ==
    \E i \in 1..Len(lightGroups[l]) :
        lightGroups[l][i].id = g /\ bit \in lightGroups[l][i].actions

\* the groups a GetGroupMembership response of the light omitted although
\* the light was a member: user groups in the state Normal
Omitted ==
    IF clast.op = "indication" /\ clast.light # 0 /\ clast.rsp.cmd = "GetGroupMembershipResponse"
    THEN {clast.before.groups[i].id : i \in
             {j \in 1..Len(clast.before.groups) :
                 /\ clast.before.groups[j].state = "StateInGroup"
                 /\ clast.before.groups[j].id \notin Range(ResponseGroups(clast.rsp))
                 /\ GroupTable[clast.before.groups[j].id].state = "StateNormal"
                 /\ GroupTable[clast.before.groups[j].id].deviceMemberships = {}}}
    ELSE {}

\* light l is available, the radio in the network, tasks not longer than
\* MaxGroupTasks
CanFlush(l) == lightAvailable[l] /\ inNetwork /\ Len(tasks) <= MaxGroupTasks

\* the group task timer has enqueued the add-to-group request of light l
\* for group g and cleared the bit
Flushed(l, g) ==
    /\ clast.op = "tick" /\ clast.light = l /\ clast.enqueued = g
    /\ ~HasBit(l, g, "ActionAddToGroup")
    /\ \E k \in 1..Len(tasks) :
         /\ tasks[k].taskType = "TaskAddToGroup"
         /\ tasks[k].dst = ExtAddr(LightNodes[l].ext)
         /\ tasks[k].key = LightNodes[l].endpoint

\* a response of light l has set the AddToGroup bit of a group that stands
\* before group g in the group list of the light
Overtaken(l, g) ==
    /\ clast.op = "indication" /\ clast.light = l
    /\ \E i \in 1..Len(clast.before.groups) :
         /\ \E j \in (i + 1)..Len(clast.before.groups) : clast.before.groups[j].id = g
         /\ "ActionAddToGroup" \notin clast.before.groups[i].actions
         /\ "ActionAddToGroup" \in lightGroups[l][i].actions

\* the bits after a response that omits groups
DriftSetsBit ==
    \A g \in Omitted :
        HasBit(clast.light, g, "ActionAddToGroup") /\ ~HasBit(clast.light, g, "ActionRemoveFromGroup")

C25_CapacityPlusCountInRange ==
    \A l \in DOMAIN LightNodes : groupCapacity[l] + groupCount[l] \in 0..255

Clamp(n) == IF n < 0 THEN 0 ELSE IF n > 255 THEN 255 ELSE n

\* C26: after an AddGroup response with status 0 the count of the light is
\* the count before plus one and the capacity the capacity before minus the
\* number of endpoints of the device, after a RemoveGroup response with
\* status 0 for a group of the light the count is the count before minus
\* one and the capacity the capacity before plus the number of endpoints,
\* each clamped to 0..255.
C26_CountAndCapacityClamped ==
    (clast.op = "indication" /\ clast.light # 0 /\ clast.rsp.status = 0) =>
        LET l == clast.light
            n == getNumberOfEndpoints(LightNodes[l].ext)
        IN  /\ clast.rsp.cmd = "AddGroupResponse" =>
                 /\ groupCount[l] = Clamp(clast.before.count + 1)
                 /\ groupCapacity[l] = Clamp(clast.before.capacity - n)
            /\ (clast.rsp.cmd = "RemoveGroupResponse"
                   /\ HasGroupInfo(clast.before.groups, clast.rsp.groupId)) =>
                 /\ groupCount[l] = Clamp(clast.before.count - 1)
                 /\ groupCapacity[l] = Clamp(clast.before.capacity + n)

C32_AtMostTwoPerTick ==
    /\ zlast.lightEnqueued <= 2
    /\ zlast.sensorEnqueued <= 2

(***************************************************************************)
(* The deleted state of the sensors.                                       *)
(***************************************************************************)
\* C33: a deleted sensor returns to the normal state only while the permit
\* join window is open; no event that arrives while the window is closed,
\* a commissioning frame of a green power device included, brings it back
C33_RevivedOnlyWhilePermitJoin ==
    [][\A s \in DOMAIN SensorNodes :
          sensorDeleted[s] /\ ~sensorDeleted'[s] => permitJoin > 0]_vars

(***************************************************************************)
(* The group send delay.                                                   *)
(***************************************************************************)
\* the entries a pass submitted to a group of the group table
SentToGroup(sent, g) ==
    {i \in 1..Len(sent) : sent[i].dst.mode = "ApsGroupAddress" /\ sent[i].dst.a = g}

\* C34: two successive submissions to one group of the group table are more
\* than gwGroupSendDelay milliseconds apart: a pass submits a request to a
\* group that was sent to before only if more than the delay has passed
\* since Group::sendTime
C34_GroupSubmissionsSpaced ==
    [][\A g \in Groups :
          SentToGroup(last'.sent, g) # {} /\ sendTime[g] # InvalidTime
             => now - sendTime[g] > gwGroupSendDelay]_vars

(***************************************************************************)
(* Disabled rules.                                                         *)
(***************************************************************************)
\* C35: a rule whose status is disabled has no action executed and keeps
\* lastTriggered and timesTriggered, under the rule timer
\* (triggerRuleIfNeeded) and under the indications of the green power
\* switch (gpProcessButtonEvent)
C35_DisabledRuleNeverTriggered ==
    [][\A k \in 1..Len(rules) :
          rules[k].status = "disabled" /\ k <= Len(rules')
             => /\ rules'[k].lastTriggered = rules[k].lastTriggered
                /\ rules'[k].timesTriggered = rules[k].timesTriggered
                /\ glast' # glast => rules[k].id \notin glast'.ran
                /\ tlast' # tlast /\ tlast'.id = rules[k].id => tlast'.replayed = {}]_vars

\* C36: a PUT request whose body has none of the keys status, actions and
\* conditions leaves the status of the rule as it was; a disabled rule
\* stays disabled
C36_PutWithoutStatusKeepsStatus ==
    [][rlast'.op = "PUT" /\ rlast'.body.has \cap {"status", "actions", "conditions"} = {}
          => \A k \in 1..Len(rules) : rules'[k].status = rules[k].status]_vars

(***************************************************************************)
(* The ids of the rules over time.                                         *)
(***************************************************************************)
\* C37: rule ids are not used twice: the id a successful POST request
\* returns was returned by no successful POST request before it, whatever
\* POST, PUT and DELETE requests were handled in between
C37_RuleIdsNeverReused ==
    [][nPosts' = nPosts + 1 => rlast'.id \notin issued]_vars

(***************************************************************************)
(* The sensor of a BindingTask.                                            *)
(***************************************************************************)
\* C38: the restNode of every BindingTask in the binding queue is the
\* sensor whose extended address is the source address of the binding,
\* also for rules with eq conditions on several sensors of which some are
\* unavailable
C38_RestNodeIsBindingSource ==
    \A j \in 1..Len(bindingQueue) :
        SensorNodes[bindingQueue[j].restNode].ext = bindingQueue[j].srcAddress

(***************************************************************************)
(* The pipeline drains.                                                    *)
(***************************************************************************)
\* the TaskItem that was offered as number i is in tasks
InTasks(i) == \E j \in 1..Len(tasks) : tasks[j].ord = i

\* C39: no task stays in tasks for ever: in the network, with the task
\* timer firing, the radio accepting and confirming every request, each
\* task addTask accepted leaves tasks, a task for a group that is not in
\* the group table included
C39_EveryTaskLeaves ==
    \A i \in 0..(MaxGroupOffers - 1) : InTasks(i) ~> ~InTasks(i)

(***************************************************************************)
(* Responses of the scene cluster.                                         *)
(***************************************************************************)
\* C40: a response of the scene cluster that names a group that is not in
\* the group table is ignored: no missing group is accessed, so the process
\* goes on, and the scene fields and the read flags of the lights stay as
\* they were
C40_UnknownGroupIgnored ==
    [][nSceneRsp' = nSceneRsp + 1 /\ ~slast'.known
          => /\ ~crashed'
             /\ UNCHANGED <<sceneCapacity, sceneCount, lightRead>>]_vars

====
